---- MODULE Spec2Model ----
(***************************************************************************)
(* Cylinder tracking backend (backend/orders): the cylinder row, the scan  *)
(* ledger (CylinderScan) and the history ledger (CylinderHistory), and the *)
(* request handlers register_cylinder, scan_cylinder,                      *)
(* update_cylinder_status and assign_cylinder_to_order of views.py and the *)
(* serializers that validate their input, each split at the points where   *)
(* the handler talks to the database, so that requests served by parallel  *)
(* workers interleave as they can in the running server.                   *)
(***************************************************************************)
EXTENDS Integers, Sequences, FiniteSets, TLC

VARIABLES cyl, scans, history, now, proc, started, vin, vout,
          orders, deliveries, vehicles, assignments, users

vars == <<cyl, scans, history, now, proc, started, vin, vout,
          orders, deliveries, vehicles, assignments, users>>

(***************************************************************************)
(* Bounds of the model.                                                    *)
(***************************************************************************)
MaxReq == 2
MaxReqSeq == 2
MaxReqGeo == 2
MaxReqRapid == 7
MaxReqReg == 2
MaxDays == 2

MaxReqOrd == 3

MaxReqOrdConc == 3

MaxReqRoles == 2

MaxReqAuth == 2

MaxReqSignout == 2

MaxReqHist == 3

MaxReqFleet == 3

MaxReqDispatch == 2

MaxTicksSignout == 2

MaxTicksAuth == 7

MaxTicksGeo == 1

MaxReqAnomaly == 7
MaxTicksAnomaly == 1
MaxTicksRapid == 6
TickSec == 60

(***************************************************************************)
(* Values of the program.                                                  *)
(***************************************************************************)
Null == -1000
NoRef == "NULL"
Today == 1

Statuses == {"ACTIVE", "FILLED", "IN_DELIVERY", "EMPTY", "MAINTENANCE", "RETIRED", "STOLEN"}

Procs == {"w1", "w2"}
CylIds == {"c1"}
Users == {"disp1", "cust1"}
Drivers == {"drv1", "drv2"}
Admins == {"adm1"}
Orders == {"o1"}
Vehicles == {"v1", "v2"}

Role(u) ==
  CASE u = "disp1" -> "DISPATCHER"
    [] u \in Admins -> "ADMIN"
    [] u \in Drivers -> "DRIVER"
    [] OTHER -> "CUSTOMER"

OrderCustomer(o) == orders[o].customer

OrderStatus(o) == orders[o].status

Hex == {"C1", "A2"}
SecretTokens == {"K1"}
NoCode == <<>>

SerialOf(c) == <<"C", "Y", "L", "-", "1">>

RapidWindowSec == 300
RapidThreshold == 5
TravelWindowSec == 300
TravelThreshold == 5

RapidMsg == "Multiple rapid scans detected - possible cloning attempt"
TravelMsg == " Impossible location change detected."

MsgInvalidQr == "Invalid QR code"
MsgInvalidRfid == "Invalid RFID tag"
MsgTampered == "Cylinder shows signs of tampering"
MsgNonAuthentic == "Cylinder marked as non-authentic"
MsgRetired == "Cylinder has been retired"
MsgStolen == "Cylinder reported as stolen/lost"
MsgExpired == "Cylinder has expired - requires inspection"
MsgVerified == "Cylinder verified successfully"

(***************************************************************************)
(* The cylinder row (models.Cylinder) as created by a registration.        *)
(***************************************************************************)
Unsaved(serial, expiry) ==
  [ serial_number |-> serial,
    qr_code |-> NoCode,
    rfid_tag |-> NoCode,
    secret_key |-> NoCode,
    auth_hash |-> NoCode,
    status |-> "ACTIVE",
    is_authentic |-> TRUE,
    is_tampered |-> FALSE,
    expiry_date |-> expiry,
    total_fills |-> 0,
    total_scans |-> 0,
    current_customer |-> NoRef,
    current_order |-> NoRef,
    last_known_location |-> "",
    last_scanned_at |-> Null,
    last_scanned_by |-> NoRef ]

(***************************************************************************)
(* Cylinder.save: a code is generated only for a field that is still       *)
(* empty; g holds the values uuid4 and token_urlsafe return in this call.  *)
(***************************************************************************)
Generated == [qr : Hex, rfid : Hex, secret : SecretTokens]

Sha256(serial, qr, rfid, secret) == <<"sha256", serial, qr, rfid, secret>>

SaveRegeneratesQr(row, g) ==
  LET qr == <<"QR-", g.qr>>
      rfid == IF row.rfid_tag = NoCode THEN <<"RFID-", g.rfid>> ELSE row.rfid_tag
      secret == IF row.secret_key = NoCode THEN <<g.secret>> ELSE row.secret_key
      hash == IF row.auth_hash = NoCode
              THEN Sha256(row.serial_number, qr, rfid, secret) ELSE row.auth_hash
  IN [row EXCEPT !.qr_code = qr, !.rfid_tag = rfid, !.secret_key = secret, !.auth_hash = hash]

Save(row, g) ==
  LET qr == IF row.qr_code = NoCode THEN <<"QR-", g.qr>> ELSE row.qr_code
      rfid == IF row.rfid_tag = NoCode THEN <<"RFID-", g.rfid>> ELSE row.rfid_tag
      secret == IF row.secret_key = NoCode THEN <<g.secret>> ELSE row.secret_key
      hash == IF row.auth_hash = NoCode
              THEN Sha256(row.serial_number, qr, rfid, secret) ELSE row.auth_hash
  IN [row EXCEPT !.qr_code = qr, !.rfid_tag = rfid, !.secret_key = secret, !.auth_hash = hash]

NewCylinder(c, st, tampered, authentic, expiry) ==
  [Save(Unsaved(SerialOf(c), expiry), [qr |-> "C1", rfid |-> "C1", secret |-> "K1"])
     EXCEPT !.status = st, !.is_tampered = tampered, !.is_authentic = authentic]

NoData == [present |-> FALSE, scan_result |-> "", is_suspicious |-> FALSE,
           latitude |-> Null, longitude |-> Null]

HistoryEvent(c, type, actor, customer, order, prev, new, loc, data) ==
  [ cylinder |-> c, event_type |-> type, performed_by |-> actor,
    customer |-> customer, order |-> order, driver |-> NoRef,
    previous_status |-> prev, new_status |-> new,
    location |-> loc, verification_data |-> data ]

Idle == [pc |-> "idle", op |-> "none"]

Finished(o, inp, response) == [pc |-> "idle", op |-> o, inp |-> inp, resp |-> response]

(***************************************************************************)
(* Cylinder.verify_authenticity and the classification of its outcome.     *)
(***************************************************************************)
SecondsPerDay == 86400

DateOf(t) == Today + (t \div SecondsPerDay)

IsExpired(row) == row.expiry_date < DateOf(now)

verify_authenticity_retired_first(row, code, code_type) ==
  IF code_type = "qr" /\ row.qr_code # code THEN <<FALSE, MsgInvalidQr>>
  ELSE IF code_type = "rfid" /\ row.rfid_tag # code THEN <<FALSE, MsgInvalidRfid>>
  ELSE IF row.status = "RETIRED" THEN <<FALSE, MsgRetired>>
  ELSE IF row.is_tampered THEN <<FALSE, MsgTampered>>
  ELSE IF ~row.is_authentic THEN <<FALSE, MsgNonAuthentic>>
  ELSE IF row.status = "STOLEN" THEN <<FALSE, MsgStolen>>
  ELSE IF IsExpired(row) THEN <<FALSE, MsgExpired>>
  ELSE <<TRUE, MsgVerified>>

verify_authenticity(row, code, code_type) ==
  IF code_type = "qr" /\ row.qr_code # code THEN <<FALSE, MsgInvalidQr>>
  ELSE IF code_type = "rfid" /\ row.rfid_tag # code THEN <<FALSE, MsgInvalidRfid>>
  ELSE IF row.is_tampered THEN <<FALSE, MsgTampered>>
  ELSE IF ~row.is_authentic THEN <<FALSE, MsgNonAuthentic>>
  ELSE IF row.status = "RETIRED" THEN <<FALSE, MsgRetired>>
  ELSE IF row.status = "STOLEN" THEN <<FALSE, MsgStolen>>
  ELSE IF IsExpired(row) THEN <<FALSE, MsgExpired>>
  ELSE <<TRUE, MsgVerified>>

ScanResult(is_valid, row) ==
  IF is_valid THEN "SUCCESS"
  ELSE IF row.is_tampered THEN "TAMPERED"
  ELSE IF row.status = "STOLEN" THEN "STOLEN"
  ELSE IF IsExpired(row) THEN "EXPIRED"
  ELSE "FAILED"

Lower(scan_type) ==
  IF scan_type = "QR" THEN "qr" ELSE IF scan_type = "RFID" THEN "rfid" ELSE "manual"

generate_auth_token(row, t) == <<row.auth_hash, t>>

NoToken == <<>>

(***************************************************************************)
(* Queries of scan_cylinder.                                               *)
(***************************************************************************)
FindByCode(scan_type, code) ==
  IF scan_type = "QR" THEN {c \in DOMAIN cyl : cyl[c].qr_code = code}
  ELSE {c \in DOMAIN cyl : cyl[c].rfid_tag = code}

RecentScans(c, t) ==
  Cardinality({i \in 1..Len(scans) :
                 scans[i].cylinder = c /\ scans[i].scan_timestamp >= t - RapidWindowSec})

WithLat(c) == {i \in 1..Len(scans) : scans[i].cylinder = c /\ scans[i].scan_location_lat # Null}

LastScanIdx(c) == CHOOSE i \in WithLat(c) : \A j \in WithLat(c) : j <= i

Truthy(x) == x # Null /\ x # 0

Abs(x) == IF x < 0 THEN -x ELSE x

RapidFlag(recent) == recent > RapidThreshold

TravelChecked(c, lat, lng, t) ==
  /\ Truthy(lat) /\ Truthy(lng)
  /\ WithLat(c) # {}
  /\ t - scans[LastScanIdx(c)].scan_timestamp < TravelWindowSec

TravelRaises(c, lat, lng, t) ==
  TravelChecked(c, lat, lng, t) /\ scans[LastScanIdx(c)].scan_location_lng = Null

TravelFlag(c, lat, lng, t) ==
  /\ TravelChecked(c, lat, lng, t)
  /\ LET last == scans[LastScanIdx(c)]
     IN \/ Abs(lat - last.scan_location_lat) > TravelThreshold
        \/ Abs(lng - last.scan_location_lng) > TravelThreshold

SuspiciousReasonTravelOverwrites(rapid, travel) ==
  IF travel THEN <<TravelMsg>> ELSE IF rapid THEN <<RapidMsg>> ELSE <<>>

SuspiciousReason(rapid, travel) ==
  (IF rapid THEN <<RapidMsg>> ELSE <<>>) \o (IF travel THEN <<TravelMsg>> ELSE <<>>)

(***************************************************************************)
(* scan_cylinder, step 1: resolve the cylinder, verify it in memory.       *)
(***************************************************************************)
ScanBegin(p, maxReq, D) ==
  /\ proc[p].pc = "idle"
  /\ started < maxReq
  /\ \E actor \in D.scanners, code \in D.codes, st \in D.types,
        lat \in D.lats, lng \in D.lngs, addr \in D.addrs :
       LET inp == [code |-> code, scan_type |-> st, lat |-> lat, lng |-> lng, addr |-> addr]
           found == FindByCode(st, code)
       IN IF st = "MANUAL"
          THEN proc' = [proc EXCEPT ![p] =
                 Finished("scan", inp, [code |-> 500, cause |-> "NameError"])]
          ELSE IF found = {}
          THEN proc' = [proc EXCEPT ![p] =
                 Finished("scan", inp, [code |-> 404, cause |-> "", verified |-> FALSE,
                                        scan_result |-> "FAILED"])]
          ELSE \E c \in found :
                 LET row == cyl[c]
                     v == verify_authenticity(row, code, Lower(st))
                 IN proc' = [proc EXCEPT ![p] =
                      [pc |-> "scan_detect", op |-> "scan", actor |-> actor, inp |-> inp,
                       cid |-> c, row |-> row, is_valid |-> v[1], message |-> v[2],
                       scan_result |-> ScanResult(v[1], row),
                       is_suspicious |-> FALSE, suspicious_reason |-> <<>>]]
  /\ started' = started + 1
  /\ UNCHANGED <<cyl, scans, history, now, vin, vout, orders, deliveries, vehicles, assignments, users>>

(***************************************************************************)
(* scan_cylinder, step 2: the two anomaly queries on the scan ledger.      *)
(***************************************************************************)
ScanDetect(p) ==
  /\ proc[p].pc = "scan_detect"
  /\ LET s == proc[p]
         rapid == RapidFlag(RecentScans(s.cid, now))
     IN IF TravelRaises(s.cid, s.inp.lat, s.inp.lng, now)
        THEN proc' = [proc EXCEPT ![p] =
               Finished("scan", s.inp, [code |-> 500, cause |-> "TypeError"])]
        ELSE LET travel == TravelFlag(s.cid, s.inp.lat, s.inp.lng, now)
             IN proc' = [proc EXCEPT ![p] =
                  [s EXCEPT !.pc = "scan_tx",
                            !.is_suspicious = rapid \/ travel,
                            !.suspicious_reason = SuspiciousReason(rapid, travel)]]
  /\ UNCHANGED <<cyl, scans, history, now, started, vin, vout, orders, deliveries, vehicles, assignments, users>>

(***************************************************************************)
(* scan_cylinder, step 3: the transaction (scan log, cylinder, history).   *)
(***************************************************************************)
ScanLogAlwaysIssuesToken(s, t) ==
  [ cylinder |-> s.cid, scan_type |-> s.inp.scan_type, scan_result |-> s.scan_result,
    scanned_by |-> s.actor, scanner_role |-> Role(s.actor), scanned_code |-> s.inp.code,
    scan_timestamp |-> t,
    scan_location_lat |-> s.inp.lat, scan_location_lng |-> s.inp.lng,
    scan_location_address |-> s.inp.addr,
    verification_message |-> s.message,
    auth_token |-> generate_auth_token(s.row, t),
    is_suspicious |-> s.is_suspicious, suspicious_reason |-> s.suspicious_reason ]

ScanLog(s, t) ==
  [ cylinder |-> s.cid, scan_type |-> s.inp.scan_type, scan_result |-> s.scan_result,
    scanned_by |-> s.actor, scanner_role |-> Role(s.actor), scanned_code |-> s.inp.code,
    scan_timestamp |-> t,
    scan_location_lat |-> s.inp.lat, scan_location_lng |-> s.inp.lng,
    scan_location_address |-> s.inp.addr,
    verification_message |-> s.message,
    auth_token |-> IF s.is_valid THEN generate_auth_token(s.row, t) ELSE NoToken,
    is_suspicious |-> s.is_suspicious, suspicious_reason |-> s.suspicious_reason ]

ScannedRow(s, t) ==
  [s.row EXCEPT !.last_scanned_at = t,
                !.last_scanned_by = s.actor,
                !.total_scans = s.row.total_scans + 1,
                !.last_known_location = IF s.inp.addr # "" THEN s.inp.addr ELSE @]

ScannedHistorySwapsCoordinates(s) ==
  HistoryEvent(s.cid, "SCANNED", s.actor, NoRef, NoRef, "", "", s.inp.addr,
               [present |-> TRUE, scan_result |-> s.scan_result,
                is_suspicious |-> s.is_suspicious,
                latitude |-> s.inp.lng, longitude |-> s.inp.lat])

ScannedHistory(s) ==
  HistoryEvent(s.cid, "SCANNED", s.actor, NoRef, NoRef, "", "", s.inp.addr,
               [present |-> TRUE, scan_result |-> s.scan_result,
                is_suspicious |-> s.is_suspicious,
                latitude |-> s.inp.lat, longitude |-> s.inp.lng])

Database == [cyl |-> cyl, scans |-> scans, history |-> history]

ScanWritesOverwritesHistory(db, s, t, k, g) ==
  [ scans |-> IF k >= 1 THEN Append(db.scans, ScanLog(s, t)) ELSE db.scans,
    cyl |-> IF k >= 2 THEN [db.cyl EXCEPT ![s.cid] = Save(ScannedRow(s, t), g)]
                         ELSE db.cyl,
    history |-> IF k >= 3 THEN <<ScannedHistory(s)>> ELSE db.history ]

ScanWrites(db, s, t, k, g) ==
  [ scans |-> IF k >= 1 THEN Append(db.scans, ScanLog(s, t)) ELSE db.scans,
    cyl |-> IF k >= 2 THEN [db.cyl EXCEPT ![s.cid] = Save(ScannedRow(s, t), g)]
                         ELSE db.cyl,
    history |-> IF k >= 3 THEN Append(db.history, ScannedHistory(s)) ELSE db.history ]

RollbackKeepsWrites(snapshot, working) == working

Rollback(snapshot, working) == snapshot

ScanResponse(s, t) ==
  [ code |-> 200, cause |-> "", verified |-> s.is_valid, scan_result |-> s.scan_result,
    message |-> s.message,
    auth_token |-> IF s.is_valid THEN generate_auth_token(s.row, t) ELSE NoToken,
    warning |-> s.is_suspicious ]

ScanCommit(p) ==
  /\ proc[p].pc = "scan_tx"
  /\ \E g \in Generated :
     LET s == proc[p]
         db == ScanWrites(Database, s, now, 3, g)
     IN /\ cyl' = db.cyl
        /\ scans' = db.scans
        /\ history' = db.history
        /\ proc' = [proc EXCEPT ![p] = Finished("scan", s.inp, ScanResponse(s, now))]
  /\ UNCHANGED <<now, started, vin, vout, orders, deliveries, vehicles, assignments, users>>

ScanAbort(p) ==
  /\ proc[p].pc = "scan_tx"
  /\ \E failing \in 1..3, g \in Generated :
       LET s == proc[p]
           db == Rollback(Database, ScanWrites(Database, s, now, failing - 1, g))
       IN /\ cyl' = db.cyl
          /\ scans' = db.scans
          /\ history' = db.history
          /\ proc' = [proc EXCEPT ![p] =
               Finished("scan", s.inp, [code |-> 500, cause |-> "DatabaseError",
                                        failed_at |-> failing])]
  /\ UNCHANGED <<now, started, vin, vout, orders, deliveries, vehicles, assignments, users>>

(***************************************************************************)
(* Permission class IsDispatcherOrAdmin.                                   *)
(***************************************************************************)
IsDispatcherOrAdminOrDriver(actor) == Role(actor) \in {"DISPATCHER", "ADMIN", "DRIVER"}

IsDispatcherOrAdmin(actor) == Role(actor) \in {"DISPATCHER", "ADMIN"}

(***************************************************************************)
(* update_cylinder_status: load the row and validate the transition on the *)
(* loaded instance, then save the loaded instance and log the change.      *)
(***************************************************************************)
valid_transitions_retired_reopens(current_status) ==
  CASE current_status = "ACTIVE" -> {"FILLED", "MAINTENANCE", "RETIRED", "STOLEN"}
    [] current_status = "FILLED" -> {"IN_DELIVERY", "EMPTY", "MAINTENANCE"}
    [] current_status = "IN_DELIVERY" -> {"FILLED", "EMPTY"}
    [] current_status = "EMPTY" -> {"FILLED", "MAINTENANCE", "RETIRED"}
    [] current_status = "MAINTENANCE" -> {"ACTIVE", "RETIRED"}
    [] current_status = "RETIRED" -> {"ACTIVE"}
    [] current_status = "STOLEN" -> {"ACTIVE"}
    [] OTHER -> {}

valid_transitions(current_status) ==
  CASE current_status = "ACTIVE" -> {"FILLED", "MAINTENANCE", "RETIRED", "STOLEN"}
    [] current_status = "FILLED" -> {"IN_DELIVERY", "EMPTY", "MAINTENANCE"}
    [] current_status = "IN_DELIVERY" -> {"FILLED", "EMPTY"}
    [] current_status = "EMPTY" -> {"FILLED", "MAINTENANCE", "RETIRED"}
    [] current_status = "MAINTENANCE" -> {"ACTIVE", "RETIRED"}
    [] current_status = "RETIRED" -> {}
    [] current_status = "STOLEN" -> {"ACTIVE"}
    [] OTHER -> {}

validate_status(row, value) == value \in valid_transitions(row.status)

UpdateBegin(p, maxReq, D) ==
  /\ proc[p].pc = "idle"
  /\ started < maxReq
  /\ \E actor \in D.actors, c \in D.cids, new \in D.statuses, loc \in D.addrs :
       LET inp == [cylinder_id |-> c, status |-> new, location |-> loc, actor |-> actor]
       IN IF ~IsDispatcherOrAdmin(actor)
          THEN proc' = [proc EXCEPT ![p] = Finished("update", inp, [code |-> 403])]
          ELSE IF c \notin DOMAIN cyl
          THEN proc' = [proc EXCEPT ![p] = Finished("update", inp, [code |-> 404])]
          ELSE IF ~validate_status(cyl[c], new)
          THEN proc' = [proc EXCEPT ![p] =
                 Finished("update", inp, [code |-> 400, seen |-> cyl[c].status])]
          ELSE proc' = [proc EXCEPT ![p] =
                 [pc |-> "upd_tx", op |-> "update", actor |-> actor, inp |-> inp,
                  cid |-> c, row |-> cyl[c]]]
  /\ started' = started + 1
  /\ UNCHANGED <<cyl, scans, history, now, vin, vout, orders, deliveries, vehicles, assignments, users>>

UpdatedRow(s) ==
  [s.row EXCEPT !.status = s.inp.status,
                !.last_known_location = IF s.inp.location # "" THEN s.inp.location ELSE @]

UpdateCommit(p) ==
  /\ proc[p].pc = "upd_tx"
  /\ \E g \in Generated :
     LET s == proc[p]
         old_status == s.row.status
     IN /\ cyl' = [cyl EXCEPT ![s.cid] = Save(UpdatedRow(s), g)]
        /\ history' = Append(history,
             HistoryEvent(s.cid, "STATUS_CHANGE", s.actor, NoRef, NoRef,
                          old_status, s.inp.status, s.inp.location, NoData))
        /\ proc' = [proc EXCEPT ![p] =
             Finished("update", s.inp, [code |-> 200, seen |-> old_status])]
  /\ UNCHANGED <<scans, now, started, vin, vout, orders, deliveries, vehicles, assignments, users>>

(***************************************************************************)
(* assign_cylinder_to_order: the serializer validates against a first read *)
(* of the row; the transaction re-reads the row under select_for_update.   *)
(***************************************************************************)
validate_cylinder_id(c) == c \in DOMAIN cyl /\ cyl[c].status \notin {"RETIRED", "STOLEN"}

validate_order_id(o) ==
  o = NoRef \/ (o \in DOMAIN orders /\ OrderStatus(o) \notin {"DELIVERED", "CANCELLED"})

validate_customer_id(u) == u = NoRef \/ (u \in Users /\ Role(u) = "CUSTOMER")

AssignBegin(p, maxReq, D) ==
  /\ proc[p].pc = "idle"
  /\ started < maxReq
  /\ \E actor \in D.actors, c \in D.cids, o \in D.orders, u \in D.customers :
       LET inp == [cylinder_id |-> c, order_id |-> o, customer_id |-> u, actor |-> actor]
       IN IF ~IsDispatcherOrAdmin(actor)
          THEN proc' = [proc EXCEPT ![p] = Finished("assign", inp, [code |-> 403])]
          ELSE IF ~(validate_cylinder_id(c) /\ validate_order_id(o) /\ validate_customer_id(u))
          THEN proc' = [proc EXCEPT ![p] = Finished("assign", inp, [code |-> 400])]
          ELSE proc' = [proc EXCEPT ![p] =
                 [pc |-> "asg_tx", op |-> "assign", actor |-> actor, inp |-> inp, cid |-> c]]
  /\ started' = started + 1
  /\ UNCHANGED <<cyl, scans, history, now, vin, vout, orders, deliveries, vehicles, assignments, users>>

AssignedRow(row, inp) ==
  IF inp.order_id # NoRef
  THEN [row EXCEPT !.current_order = inp.order_id,
                   !.current_customer = OrderCustomer(inp.order_id),
                   !.status = "IN_DELIVERY"]
  ELSE IF inp.customer_id # NoRef
  THEN [row EXCEPT !.current_customer = inp.customer_id, !.current_order = NoRef]
  ELSE row

AssignHistory(s, row) ==
  IF s.inp.order_id # NoRef
  THEN <<HistoryEvent(s.cid, "DELIVERED", s.actor, OrderCustomer(s.inp.order_id),
                      s.inp.order_id, AssignedRow(row, s.inp).status, "IN_DELIVERY", "", NoData)>>
  ELSE IF s.inp.customer_id # NoRef
  THEN <<HistoryEvent(s.cid, "CUSTOMER_ASSIGNED", s.actor, s.inp.customer_id, NoRef,
                      "", "", "", NoData)>>
  ELSE <<>>

AssignCommit(p) ==
  /\ proc[p].pc = "asg_tx"
  /\ \E g \in Generated :
     LET s == proc[p]
         row == cyl[s.cid]
     IN /\ cyl' = [cyl EXCEPT ![s.cid] = Save(AssignedRow(row, s.inp), g)]
        /\ history' = history \o AssignHistory(s, row)
        /\ proc' = [proc EXCEPT ![p] = Finished("assign", s.inp, [code |-> 200])]
  /\ UNCHANGED <<scans, now, started, vin, vout, orders, deliveries, vehicles, assignments, users>>

(***************************************************************************)
(* CylinderCreateSerializer: text operations on a serial number, held as   *)
(* the sequence of its characters.                                         *)
(***************************************************************************)
MinSerialLen == 5
MaxCapacityKg == 100
MaxAgeYears == 20
MaxLifespanYears == 20
DaysPerYear == 365

Years(n) == n * DaysPerYear

RECURSIVE StripLeft(_)
StripLeft(s) == IF s # <<>> /\ Head(s) = " " THEN StripLeft(Tail(s)) ELSE s

RECURSIVE StripRight(_)
StripRight(s) ==
  IF s # <<>> /\ s[Len(s)] = " " THEN StripRight(SubSeq(s, 1, Len(s) - 1)) ELSE s

Strip(s) == StripRight(StripLeft(s))

UpperChar(ch) ==
  CASE ch = "c" -> "C"
    [] ch = "y" -> "Y"
    [] ch = "l" -> "L"
    [] OTHER -> ch

Upper(s) == [i \in 1..Len(s) |-> UpperChar(s[i])]

IsAlnumChar(ch) == ch \in {"c", "y", "l", "C", "Y", "L", "1", "2"}

IsAlnum(s) == s # <<>> /\ \A i \in 1..Len(s) : IsAlnumChar(s[i])

NotHyphen(ch) == ch # "-"

validate_serial_number_ok(value) ==
  /\ Len(Strip(value)) >= MinSerialLen
  /\ IsAlnum(SelectSeq(value, NotHyphen))

validate_serial_number(value) == Upper(Strip(value))

SerialTaken(value) == \E c \in DOMAIN cyl : cyl[c].serial_number = value

validate_capacity_kg(value) == value > 0 /\ value <= MaxCapacityKg

validate_manufacturing_date(value) ==
  value <= DateOf(now) /\ value >= DateOf(now) - Years(MaxAgeYears)

validate_expiry_date(value) == value > DateOf(now)

validate_dates(manufacturing_date, expiry_date) ==
  /\ expiry_date > manufacturing_date
  /\ expiry_date <= manufacturing_date + Years(MaxLifespanYears)

CreateIsValid(r) ==
  LET serial == Strip(r.serial_number)
  IN /\ ~SerialTaken(serial)
     /\ validate_serial_number_ok(serial)
     /\ validate_capacity_kg(r.capacity_kg)
     /\ validate_manufacturing_date(r.manufacturing_date)
     /\ validate_expiry_date(r.expiry_date)
     /\ validate_dates(r.manufacturing_date, r.expiry_date)

(***************************************************************************)
(* register_cylinder: permission and serializer validation, then the       *)
(* insert of the cylinder and of its REGISTERED event in one transaction.  *)
(***************************************************************************)
AllIds == <<"c1", "c2", "c3", "c4", "c5", "c6">>

FreshId == AllIds[Cardinality(DOMAIN cyl) + 1]

RegBegin(p, maxReq, D) ==
  /\ proc[p].pc = "idle"
  /\ started < maxReq
  /\ \E r \in D.regs :
       IF ~IsDispatcherOrAdmin(r.actor)
       THEN proc' = [proc EXCEPT ![p] = Finished("register", r, [code |-> 403])]
       ELSE IF ~CreateIsValid(r)
       THEN proc' = [proc EXCEPT ![p] = Finished("register", r, [code |-> 400])]
       ELSE proc' = [proc EXCEPT ![p] =
              [pc |-> "reg_tx", op |-> "register", actor |-> r.actor, inp |-> r,
               row |-> Unsaved(validate_serial_number(Strip(r.serial_number)),
                               r.expiry_date)]]
  /\ started' = started + 1
  /\ UNCHANGED <<cyl, scans, history, now, vin, vout, orders, deliveries, vehicles, assignments, users>>

UniqueViolation(db, row) ==
  \E c \in DOMAIN db.cyl :
    \/ db.cyl[c].serial_number = row.serial_number
    \/ db.cyl[c].qr_code = row.qr_code
    \/ db.cyl[c].rfid_tag = row.rfid_tag

Insert(table, c, row) == [x \in DOMAIN table \cup {c} |-> IF x = c THEN row ELSE table[x]]

RegisteredEvent(c, actor) ==
  HistoryEvent(c, "REGISTERED", actor, NoRef, NoRef, "", "", "", NoData)

RegWritesNoEvent(db, s, c, row, k) ==
  [ scans |-> db.scans,
    cyl |-> IF k >= 1 THEN Insert(db.cyl, c, row) ELSE db.cyl,
    history |-> db.history ]

RegWrites(db, s, c, row, k) ==
  [ scans |-> db.scans,
    cyl |-> IF k >= 1 THEN Insert(db.cyl, c, row) ELSE db.cyl,
    history |-> IF k >= 2 THEN Append(db.history, RegisteredEvent(c, s.actor))
                ELSE db.history ]

RegCommit(p) ==
  /\ proc[p].pc = "reg_tx"
  /\ \E g \in Generated :
       LET s == proc[p]
           c == FreshId
           row == Save(s.row, g)
           db == IF UniqueViolation(Database, row)
                 THEN Rollback(Database, RegWrites(Database, s, c, row, 0))
                 ELSE RegWrites(Database, s, c, row, 2)
       IN /\ cyl' = db.cyl
          /\ scans' = db.scans
          /\ history' = db.history
          /\ proc' = [proc EXCEPT ![p] =
               IF UniqueViolation(Database, row)
               THEN Finished("register", s.inp,
                             [code |-> 500, cause |-> "IntegrityError", attempts |-> 1])
               ELSE Finished("register", s.inp,
                             [code |-> 201, cause |-> "", attempts |-> 1, cylinder |-> c,
                              qr_code |-> row.qr_code, rfid_tag |-> row.rfid_tag,
                              auth_token |-> generate_auth_token(row, now)])]
  /\ UNCHANGED <<now, started, vin, vout, orders, deliveries, vehicles, assignments, users>>

RegAbort(p) ==
  /\ proc[p].pc = "reg_tx"
  /\ \E g \in Generated :
       LET s == proc[p]
           c == FreshId
           row == Save(s.row, g)
           db == Rollback(Database, RegWrites(Database, s, c, row, 1))
       IN /\ ~UniqueViolation(Database, row)
          /\ cyl' = db.cyl
          /\ scans' = db.scans
          /\ history' = db.history
          /\ proc' = [proc EXCEPT ![p] =
               Finished("register", s.inp, [code |-> 500, cause |-> "DatabaseError"])]
  /\ UNCHANGED <<now, started, vin, vout, orders, deliveries, vehicles, assignments, users>>

(***************************************************************************)
(* Orders and deliveries. A delivery is identified by its position in the  *)
(* deliveries table; Delivery.order is a one-to-one key.                   *)
(***************************************************************************)
NewOrder(customer) == [status |-> "PENDING", customer |-> customer]

NewVehicle(plate, vehicle_status) ==
  [plate_number |-> plate, status |-> vehicle_status, driver |-> NoRef]

DriverAssignment(driver, vehicle) == [driver |-> driver, vehicle |-> vehicle, end_date |-> Null]

OrderStatuses == {"PENDING", "ASSIGNED", "ON_ROUTE", "DELIVERED", "CANCELLED"}

IsDriverOrDispatcherOrAdmin(actor) == Role(actor) \in {"DRIVER", "DISPATCHER", "ADMIN"}

DeliveriesOf(table, o) == {i \in 1..Len(table) : table[i].order = o}

HasDelivery(table, o) == DeliveriesOf(table, o) # {}

DeliveryOf(table, o) == CHOOSE i \in DeliveriesOf(table, o) : TRUE

NoDelivery == [id |-> 0]

order_transitions_cancelled_reopens(current_status) ==
  CASE current_status = "PENDING" -> {"ASSIGNED", "CANCELLED"}
    [] current_status = "ASSIGNED" -> {"ON_ROUTE", "CANCELLED"}
    [] current_status = "ON_ROUTE" -> {"DELIVERED", "CANCELLED"}
    [] current_status = "DELIVERED" -> {}
    [] current_status = "CANCELLED" -> {"PENDING"}
    [] OTHER -> {}

order_transitions(current_status) ==
  CASE current_status = "PENDING" -> {"ASSIGNED", "CANCELLED"}
    [] current_status = "ASSIGNED" -> {"ON_ROUTE", "CANCELLED"}
    [] current_status = "ON_ROUTE" -> {"DELIVERED", "CANCELLED"}
    [] current_status = "DELIVERED" -> {}
    [] current_status = "CANCELLED" -> {}
    [] OTHER -> {}

validate_order_status(row, value) ==
  value \in OrderStatuses /\ value \in order_transitions(row.status)

(***************************************************************************)
(* update_order_status: load the order, check a driver's delivery, and     *)
(* validate the transition on the loaded instance; then, in one            *)
(* transaction, save the instance and move the delivery along.             *)
(***************************************************************************)
OrderUpdateBegin(p, maxReq, D) ==
  /\ proc[p].pc = "idle"
  /\ started < maxReq
  /\ \E actor \in D.order_actors, o \in D.oids, new \in D.order_statuses :
       LET inp == [order_id |-> o, status |-> new, actor |-> actor]
           cached == IF Role(actor) = "DRIVER" /\ o \in DOMAIN orders /\ HasDelivery(deliveries, o)
                     THEN [id |-> DeliveryOf(deliveries, o),
                           row |-> deliveries[DeliveryOf(deliveries, o)]]
                     ELSE NoDelivery
       IN IF ~IsDriverOrDispatcherOrAdmin(actor)
          THEN proc' = [proc EXCEPT ![p] = Finished("order_update", inp, [code |-> 403])]
          ELSE IF o \notin DOMAIN orders
          THEN proc' = [proc EXCEPT ![p] = Finished("order_update", inp, [code |-> 404])]
          ELSE IF Role(actor) = "DRIVER" /\ (cached.id = 0 \/ cached.row.driver # actor)
          THEN proc' = [proc EXCEPT ![p] = Finished("order_update", inp, [code |-> 403])]
          ELSE IF new = NoRef
          THEN proc' = [proc EXCEPT ![p] =
                 Finished("order_update", inp, [code |-> 500, cause |-> "KeyError"])]
          ELSE IF ~validate_order_status(orders[o], new)
          THEN proc' = [proc EXCEPT ![p] = Finished("order_update", inp, [code |-> 400])]
          ELSE proc' = [proc EXCEPT ![p] =
                 [pc |-> "ord_tx", op |-> "order_update", actor |-> actor, inp |-> inp,
                  oid |-> o, row |-> orders[o], cached |-> cached]]
  /\ started' = started + 1
  /\ UNCHANGED <<cyl, scans, history, now, vin, vout,
                 orders, deliveries, vehicles, assignments, users>>

DeliveryStatusAfter(new_status, delivery_status) ==
  IF new_status = "ON_ROUTE" /\ delivery_status = "ASSIGNED" THEN "IN_PROGRESS"
  ELSE IF new_status = "DELIVERED" /\ delivery_status = "IN_PROGRESS" THEN "COMPLETED"
  ELSE IF new_status = "CANCELLED" THEN "FAILED"
  ELSE delivery_status

OrderLocked(o, p) == \E q \in Procs \ {p} : proc[q].pc = "drv_wr" /\ proc[q].oid = o

OrderUpdateCommit(p) ==
  /\ proc[p].pc = "ord_tx"
  /\ ~OrderLocked(proc[p].oid, p)
  /\ LET s == proc[p]
         new == s.inp.status
         delivery == IF s.cached.id # 0 THEN s.cached
                     ELSE IF HasDelivery(deliveries, s.oid)
                     THEN [id |-> DeliveryOf(deliveries, s.oid),
                           row |-> deliveries[DeliveryOf(deliveries, s.oid)]]
                     ELSE NoDelivery
     IN /\ orders' = [orders EXCEPT ![s.oid] = [s.row EXCEPT !.status = new]]
        /\ deliveries' =
             IF delivery.id # 0 /\ DeliveryStatusAfter(new, delivery.row.status) # delivery.row.status
             THEN [deliveries EXCEPT ![delivery.id] =
                     [delivery.row EXCEPT !.status = DeliveryStatusAfter(new, delivery.row.status)]]
             ELSE deliveries
        /\ proc' = [proc EXCEPT ![p] =
             Finished("order_update", s.inp, [code |-> 200, seen |-> s.row.status])]
  /\ UNCHANGED <<cyl, scans, history, now, started, vin, vout, vehicles, assignments, users>>

(***************************************************************************)
(* assign_driver: DeliveryAssignmentSerializer validates the request on a  *)
(* first read; the transaction locks the order row and picks driver and    *)
(* vehicle, then creates the delivery and sets the order to ASSIGNED.      *)
(* Transactions on different orders hold different row locks, so their     *)
(* reads and writes interleave; a writer of a locked order row waits.      *)
(***************************************************************************)
validate_delivery_order_id(o) ==
  /\ o \in DOMAIN orders
  /\ orders[o].status = "PENDING"
  /\ ~HasDelivery(deliveries, o)

validate_driver_id(d) ==
  d = NoRef \/ (d \in DOMAIN users /\ Role(d) = "DRIVER" /\ users[d].is_active)

validate_vehicle_id(v) == v = NoRef \/ (v \in DOMAIN vehicles /\ vehicles[v].status = "ACTIVE")

OpenAssignments(d) ==
  {i \in 1..Len(assignments) :
     /\ assignments[i].driver = d
     /\ assignments[i].end_date = Null
     /\ vehicles[assignments[i].vehicle].status = "ACTIVE"}

First(S) == CHOOSE i \in S : \A j \in S : i <= j

CurrentVehicle(d) == assignments[First(OpenAssignments(d))].vehicle

Busy(d) ==
  \E i \in 1..Len(deliveries) :
    deliveries[i].driver = d /\ deliveries[i].status \in {"ASSIGNED", "IN_PROGRESS"}

AvailableDrivers ==
  {d \in DOMAIN users :
     /\ Role(d) = "DRIVER"
     /\ users[d].is_active
     /\ OpenAssignments(d) # {}
     /\ ~Busy(d)}

DriverOrder == <<"drv1", "drv2">>

FirstDriver(S) == DriverOrder[First({i \in 1..Len(DriverOrder) : DriverOrder[i] \in S})]

NewDelivery(o, driver, vehicle, actor) ==
  [order |-> o, driver |-> driver, vehicle |-> vehicle, assigned_by |-> actor,
   status |-> "ASSIGNED"]

DriverAssignBegin(p, maxReq, D) ==
  /\ proc[p].pc = "idle"
  /\ started < maxReq
  /\ \E actor \in D.order_actors, o \in D.oids, d \in D.driver_ids, v \in D.vehicle_ids :
       LET inp == [order_id |-> o, driver_id |-> d, vehicle_id |-> v, actor |-> actor]
       IN IF ~IsDispatcherOrAdmin(actor)
          THEN proc' = [proc EXCEPT ![p] = Finished("assign_driver", inp, [code |-> 403])]
          ELSE IF ~(validate_delivery_order_id(o) /\ validate_driver_id(d)
                    /\ validate_vehicle_id(v))
          THEN proc' = [proc EXCEPT ![p] = Finished("assign_driver", inp, [code |-> 400])]
          ELSE proc' = [proc EXCEPT ![p] =
                 [pc |-> "drv_tx", op |-> "assign_driver", actor |-> actor, inp |-> inp,
                  oid |-> o]]
  /\ started' = started + 1
  /\ UNCHANGED <<cyl, scans, history, now, vin, vout,
                 orders, deliveries, vehicles, assignments, users>>

DriverAssignSelect(p) ==
  /\ proc[p].pc = "drv_tx"
  /\ ~OrderLocked(proc[p].oid, p)
  /\ LET s == proc[p]
         d == s.inp.driver_id
         v == s.inp.vehicle_id
         none == d = NoRef /\ AvailableDrivers = {}
         unassigned == d # NoRef /\ v = NoRef /\ OpenAssignments(d) = {}
         driver == IF d = NoRef THEN FirstDriver(AvailableDrivers) ELSE d
         vehicle == IF d # NoRef /\ v # NoRef THEN v ELSE CurrentVehicle(driver)
     IN IF none \/ unassigned
        THEN proc' = [proc EXCEPT ![p] = Finished("assign_driver", s.inp, [code |-> 400])]
        ELSE proc' = [proc EXCEPT ![p] =
               [pc |-> "drv_wr", op |-> "assign_driver", actor |-> s.actor, inp |-> s.inp,
                oid |-> s.oid, driver |-> driver, vehicle |-> vehicle]]
  /\ UNCHANGED <<cyl, scans, history, now, started, vin, vout,
                 orders, deliveries, vehicles, assignments, users>>

DriverAssignCommit(p) ==
  /\ proc[p].pc = "drv_wr"
  /\ LET s == proc[p]
     IN IF HasDelivery(deliveries, s.oid)
        THEN /\ proc' = [proc EXCEPT ![p] =
                  Finished("assign_driver", s.inp,
                           [code |-> 500, cause |-> "IntegrityError"])]
             /\ UNCHANGED <<orders, deliveries>>
        ELSE /\ deliveries' = Append(deliveries,
                                     NewDelivery(s.oid, s.driver, s.vehicle, s.actor))
             /\ orders' = [orders EXCEPT ![s.oid].status = "ASSIGNED"]
             /\ proc' = [proc EXCEPT ![p] =
                  Finished("assign_driver", s.inp,
                           [code |-> 201, cause |-> "", delivery |-> Len(deliveries) + 1,
                            driver |-> s.driver, vehicle |-> s.vehicle])]
  /\ UNCHANGED <<cyl, scans, history, now, started, vin, vout, vehicles, assignments, users>>

(***************************************************************************)
(* create_order: one insert by a customer, the order starts PENDING.       *)
(***************************************************************************)
IsCustomerOrReadOnly(actor) == Role(actor) = "CUSTOMER"

MaxQuantityKg == 1000

MaxScheduleDays == 30

validate_quantity_kg(value) == value > 0 /\ value <= MaxQuantityKg

validate_scheduled_time(value) ==
  /\ value > now
  /\ value <= now + MaxScheduleDays * SecondsPerDay

AllOrderIds == <<"o1", "o2", "o3", "o4", "o5">>

FreshOrderId == AllOrderIds[Cardinality(DOMAIN orders) + 1]

CreateOrder(p, maxReq, D) ==
  /\ proc[p].pc = "idle"
  /\ started < maxReq
  /\ \E actor \in D.order_actors, q \in D.quantities, ahead \in D.schedules :
       LET inp == [actor |-> actor, quantity_kg |-> q, scheduled_time |-> now + ahead]
       IN IF ~IsCustomerOrReadOnly(actor)
          THEN /\ proc' = [proc EXCEPT ![p] = Finished("create_order", inp, [code |-> 403])]
               /\ UNCHANGED orders
          ELSE IF ~(validate_quantity_kg(q) /\ validate_scheduled_time(now + ahead))
          THEN /\ proc' = [proc EXCEPT ![p] = Finished("create_order", inp, [code |-> 400])]
               /\ UNCHANGED orders
          ELSE /\ orders' = Insert(orders, FreshOrderId, NewOrder(actor))
               /\ proc' = [proc EXCEPT ![p] =
                    Finished("create_order", inp, [code |-> 201, order |-> FreshOrderId])]
  /\ started' = started + 1
  /\ UNCHANGED <<cyl, scans, history, now, vin, vout, deliveries, vehicles, assignments, users>>

(***************************************************************************)
(* create_vehicle: VehicleCreateSerializer validates, then one insert.     *)
(***************************************************************************)
MaxVehicleCapacityKg == 5000

MinPlateLen == 3

VehicleStatuses == {"ACTIVE", "IN_MAINTENANCE", "RETIRED"}

validate_vehicle_capacity_kg(value) == value > 0 /\ value <= MaxVehicleCapacityKg

validate_plate_number(value) == Upper(Strip(value))

PlateTaken(plate) == \E v \in DOMAIN vehicles : vehicles[v].plate_number = plate

VehicleCreateIsValid(r) ==
  /\ ~PlateTaken(Strip(r.plate_number))
  /\ Len(Strip(r.plate_number)) >= MinPlateLen
  /\ validate_vehicle_capacity_kg(r.capacity_kg)
  /\ r.status \in VehicleStatuses

AllVehicleIds == <<"v1", "v2", "v3", "v4", "v5", "v6">>

FreshVehicleId == AllVehicleIds[Cardinality(DOMAIN vehicles) + 1]

VehicleCreateBegin(p, maxReq, D) ==
  /\ proc[p].pc = "idle"
  /\ started < maxReq
  /\ \E actor \in D.order_actors, plate \in D.plates, cap \in D.capacities,
        st \in D.vehicle_statuses :
       LET inp == [actor |-> actor, plate_number |-> plate, capacity_kg |-> cap, status |-> st]
       IN IF ~IsDispatcherOrAdmin(actor)
          THEN proc' = [proc EXCEPT ![p] = Finished("create_vehicle", inp, [code |-> 403])]
          ELSE IF ~VehicleCreateIsValid(inp)
          THEN proc' = [proc EXCEPT ![p] = Finished("create_vehicle", inp, [code |-> 400])]
          ELSE proc' = [proc EXCEPT ![p] =
                 [pc |-> "veh_ins", op |-> "create_vehicle", actor |-> actor, inp |-> inp,
                  row |-> NewVehicle(validate_plate_number(plate), st)]]
  /\ started' = started + 1
  /\ UNCHANGED <<cyl, scans, history, now, vin, vout,
                 orders, deliveries, vehicles, assignments, users>>

VehicleCreateCommit(p) ==
  /\ proc[p].pc = "veh_ins"
  /\ LET s == proc[p]
     IN IF PlateTaken(s.row.plate_number)
        THEN /\ proc' = [proc EXCEPT ![p] =
                  Finished("create_vehicle", s.inp,
                           [code |-> 500, cause |-> "IntegrityError"])]
             /\ UNCHANGED vehicles
        ELSE /\ vehicles' = Insert(vehicles, FreshVehicleId, s.row)
             /\ proc' = [proc EXCEPT ![p] =
                  Finished("create_vehicle", s.inp,
                           [code |-> 201, cause |-> "", vehicle |-> FreshVehicleId])]
  /\ UNCHANGED <<cyl, scans, history, now, started, vin, vout,
                 orders, deliveries, assignments, users>>

(***************************************************************************)
(* assign_driver_to_vehicle: VehicleDriverAssignmentSerializer validates   *)
(* on a first read; the transaction locks the vehicle row and looks up the *)
(* vehicle that has the driver, then takes the driver off that vehicle and *)
(* writes Vehicle.driver. Transactions on different vehicles hold          *)
(* different row locks, so their reads and writes interleave.              *)
(***************************************************************************)
VehiclesOfDriver(d) == {v \in DOMAIN vehicles : vehicles[v].driver = d}

validate_fleet_vehicle_id(v) == v \in DOMAIN vehicles /\ vehicles[v].status = "ACTIVE"

validate_fleet_driver_id(d) ==
  \/ d = NoRef
  \/ /\ d \in DOMAIN users
     /\ Role(d) = "DRIVER"
     /\ users[d].is_active
     /\ VehiclesOfDriver(d) = {}

FleetAssignBegin(p, maxReq, D) ==
  /\ proc[p].pc = "idle"
  /\ started < maxReq
  /\ \E actor \in D.order_actors, v \in D.fleet_vehicle_ids, d \in D.fleet_driver_ids :
       LET inp == [actor |-> actor, vehicle_id |-> v, driver_id |-> d]
           known == d \in DOMAIN users /\ Role(d) = "DRIVER" /\ users[d].is_active
       IN IF ~IsDispatcherOrAdmin(actor)
          THEN proc' = [proc EXCEPT ![p] =
                 Finished("assign_driver_to_vehicle", inp, [code |-> 403])]
          ELSE IF known /\ Cardinality(VehiclesOfDriver(d)) > 1
          THEN proc' = [proc EXCEPT ![p] =
                 Finished("assign_driver_to_vehicle", inp,
                          [code |-> 500, cause |-> "MultipleObjectsReturned"])]
          ELSE IF ~(validate_fleet_vehicle_id(v) /\ validate_fleet_driver_id(d))
          THEN proc' = [proc EXCEPT ![p] =
                 Finished("assign_driver_to_vehicle", inp, [code |-> 400])]
          ELSE proc' = [proc EXCEPT ![p] =
                 [pc |-> "flt_tx", op |-> "assign_driver_to_vehicle", actor |-> actor,
                  inp |-> inp]]
  /\ started' = started + 1
  /\ UNCHANGED <<cyl, scans, history, now, vin, vout,
                 orders, deliveries, vehicles, assignments, users>>

VehicleLocked(v, p) ==
  \E q \in Procs \ {p} : proc[q].pc = "flt_wr" /\ proc[q].inp.vehicle_id = v

FleetAssignLock(p) ==
  /\ proc[p].pc = "flt_tx"
  /\ ~VehicleLocked(proc[p].inp.vehicle_id, p)
  /\ LET s == proc[p]
         d == s.inp.driver_id
         old == IF d = NoRef THEN {} ELSE VehiclesOfDriver(d)
     IN IF Cardinality(old) > 1
        THEN proc' = [proc EXCEPT ![p] =
               Finished("assign_driver_to_vehicle", s.inp,
                        [code |-> 500, cause |-> "MultipleObjectsReturned"])]
        ELSE proc' = [proc EXCEPT ![p] =
               [pc |-> "flt_wr", op |-> "assign_driver_to_vehicle", actor |-> s.actor,
                inp |-> s.inp, old |-> old]]
  /\ UNCHANGED <<cyl, scans, history, now, started, vin, vout,
                 orders, deliveries, vehicles, assignments, users>>

FleetAssignCommit(p) ==
  /\ proc[p].pc = "flt_wr"
  /\ \A x \in proc[p].old : ~VehicleLocked(x, p)
  /\ LET s == proc[p]
         v == s.inp.vehicle_id
         d == s.inp.driver_id
         old == s.old
     IN IF d = NoRef
        THEN /\ vehicles' = [vehicles EXCEPT ![v].driver = NoRef]
             /\ proc' = [proc EXCEPT ![p] =
                  Finished("assign_driver_to_vehicle", s.inp, [code |-> 200, cause |-> ""])]
        ELSE /\ vehicles' = [x \in DOMAIN vehicles |->
                  IF x = v THEN [vehicles[x] EXCEPT !.driver = d]
                  ELSE IF x \in old THEN [vehicles[x] EXCEPT !.driver = NoRef]
                  ELSE vehicles[x]]
             /\ proc' = [proc EXCEPT ![p] =
                  Finished("assign_driver_to_vehicle", s.inp, [code |-> 200, cause |-> ""])]
  /\ UNCHANGED <<cyl, scans, history, now, started, vin, vout,
                 orders, deliveries, assignments, users>>

(***************************************************************************)
(* JSON web tokens. A token is the payload JWTService signed, or a forged  *)
(* one whose signature does not verify. Exceptions are outcomes: "" is a   *)
(* normal return.                                                          *)
(***************************************************************************)
AccessTokenLifetime == SecondsPerDay

RefreshTokenLifetime == 7 * SecondsPerDay

NoBearer == [present |-> FALSE]

Token(signed, token_type, user_id, exp) ==
  [present |-> TRUE, signed |-> signed, token_type |-> token_type, user_id |-> user_id,
   exp |-> exp]

generate_access_token(user) == Token(TRUE, "access", user, now + AccessTokenLifetime)

generate_refresh_token(user) == Token(TRUE, "refresh", user, now + RefreshTokenLifetime)

generate_token_pair(user) ==
  [access_token |-> generate_access_token(user),
   refresh_token |-> generate_refresh_token(user)]

jwt_decode(token) ==
  IF ~token.signed THEN "InvalidTokenError"
  ELSE IF token.exp <= now THEN "ExpiredSignatureError"
  ELSE ""

verify_token_any_type(token, token_type) == jwt_decode(token)

verify_token(token, token_type) ==
  IF jwt_decode(token) # "" THEN jwt_decode(token)
  ELSE IF token.token_type # token_type THEN "ValueError"
  ELSE ""

get_user_from_token(token, token_type) ==
  LET raised == verify_token(token, token_type)
  IN IF raised \in {"ExpiredSignatureError", "InvalidTokenError"}
     THEN [raised |-> raised, user |-> NoRef]
     ELSE IF raised # ""
     THEN [raised |-> "", user |-> NoRef]
     ELSE IF token.user_id \in DOMAIN users /\ users[token.user_id].is_active
     THEN [raised |-> "", user |-> token.user_id]
     ELSE [raised |-> "", user |-> NoRef]

authenticate_credentials(token) ==
  LET r == get_user_from_token(token, "access")
  IN IF r.raised # "" \/ r.user = NoRef \/ ~users[r.user].is_active
     THEN [raised |-> "AuthenticationFailed", user |-> NoRef]
     ELSE [raised |-> "", user |-> r.user]

refresh_access_token(refresh_token) ==
  LET r == get_user_from_token(refresh_token, "refresh")
  IN IF r.raised # "" THEN [raised |-> r.raised, user |-> NoRef]
     ELSE IF r.user = NoRef THEN [raised |-> "InvalidTokenError", user |-> NoRef]
     ELSE [raised |-> "", user |-> r.user]

(***************************************************************************)
(* A request to an endpoint that requires an authenticated user            *)
(* (verify_token_view), and a request to refresh_token_view.               *)
(***************************************************************************)
Authenticate(p, maxReq, D) ==
  /\ proc[p].pc = "idle"
  /\ started < maxReq
  /\ \E bearer \in D.bearers :
       LET inp == [bearer |-> bearer]
           r == authenticate_credentials(bearer)
       IN IF ~bearer.present \/ r.raised # ""
          THEN proc' = [proc EXCEPT ![p] =
                 Finished("authenticate", inp, [code |-> 401, user |-> NoRef])]
          ELSE proc' = [proc EXCEPT ![p] =
                 Finished("authenticate", inp, [code |-> 200, user |-> r.user])]
  /\ started' = started + 1
  /\ UNCHANGED <<cyl, scans, history, now, vin, vout,
                 orders, deliveries, vehicles, assignments, users>>

(***************************************************************************)
(* signout_view: the request is authenticated, the bearer token is handed  *)
(* to JWTService.blacklist_token, and the answer is 200.                   *)
(***************************************************************************)
blacklist_token(token) == NoRef

Signout(p, maxReq, D) ==
  /\ proc[p].pc = "idle"
  /\ started < maxReq
  /\ \E bearer \in D.bearers :
       LET inp == [bearer |-> bearer]
           r == authenticate_credentials(bearer)
       IN IF ~bearer.present \/ r.raised # ""
          THEN proc' = [proc EXCEPT ![p] =
                 Finished("signout", inp, [code |-> 401, user |-> NoRef])]
          ELSE proc' = [proc EXCEPT ![p] =
                 Finished("signout", inp,
                          [code |-> 200, user |-> r.user,
                           blacklist |-> blacklist_token(bearer)])]
  /\ started' = started + 1
  /\ UNCHANGED <<cyl, scans, history, now, vin, vout,
                 orders, deliveries, vehicles, assignments, users>>

RefreshToken(p, maxReq, D) ==
  /\ proc[p].pc = "idle"
  /\ started < maxReq
  /\ \E bearer \in D.bearers :
       LET inp == [bearer |-> bearer]
           r == refresh_access_token(bearer)
       IN IF ~bearer.present
          THEN proc' = [proc EXCEPT ![p] =
                 Finished("refresh", inp, [code |-> 400, user |-> NoRef])]
          ELSE IF r.raised # ""
          THEN proc' = [proc EXCEPT ![p] =
                 Finished("refresh", inp, [code |-> 401, user |-> NoRef])]
          ELSE proc' = [proc EXCEPT ![p] =
                 Finished("refresh", inp,
                          [code |-> 200, user |-> r.user,
                           tokens |-> generate_token_pair(r.user)])]
  /\ started' = started + 1
  /\ UNCHANGED <<cyl, scans, history, now, vin, vout,
                 orders, deliveries, vehicles, assignments, users>>

(***************************************************************************)
(* get_cylinder_history: customers see cylinders they hold or held,        *)
(* drivers see cylinders with a history event naming them as driver,       *)
(* dispatchers and admins see all.                                         *)
(***************************************************************************)
HistoryOf(c, event_type) ==
  SelectSeq(history,
            LAMBDA e : e.cylinder = c /\ (event_type = NoRef \/ e.event_type = event_type))

has_history(c, user) ==
  \E i \in 1..Len(history) : history[i].cylinder = c /\ history[i].customer = user

has_delivered(c, user) ==
  \E i \in 1..Len(history) : history[i].cylinder = c /\ history[i].driver = user

GetHistory(p, maxReq, D) ==
  /\ proc[p].pc = "idle"
  /\ started < maxReq
  /\ \E actor \in D.actors, c \in D.cids, t \in D.event_types :
       LET inp == [cylinder_id |-> c, event_type |-> t, actor |-> actor]
           denied == \/ /\ Role(actor) = "CUSTOMER"
                         /\ cyl[c].current_customer # actor
                         /\ ~has_history(c, actor)
                      \/ /\ Role(actor) = "DRIVER"
                         /\ ~has_delivered(c, actor)
       IN IF c \notin DOMAIN cyl
          THEN proc' = [proc EXCEPT ![p] = Finished("get_history", inp, [code |-> 404])]
          ELSE IF denied
          THEN proc' = [proc EXCEPT ![p] = Finished("get_history", inp, [code |-> 403])]
          ELSE proc' = [proc EXCEPT ![p] =
                 Finished("get_history", inp, [code |-> 200, events |-> HistoryOf(c, t)])]
  /\ started' = started + 1
  /\ UNCHANGED <<cyl, scans, history, now, vin, vout,
                 orders, deliveries, vehicles, assignments, users>>

(***************************************************************************)
(* The admin site marks a cylinder as tampered.                             *)
(***************************************************************************)
AdminMarkTampered ==
  /\ \E c \in DOMAIN cyl :
       /\ ~cyl[c].is_tampered
       /\ cyl' = [cyl EXCEPT ![c].is_tampered = TRUE]
  /\ UNCHANGED <<scans, history, now, proc, started, vin, vout, orders, deliveries, vehicles, assignments, users>>

(***************************************************************************)
(* Wall-clock time (timezone.now()), in seconds.                           *)
(***************************************************************************)
Tick(step, maxTicks) ==
  /\ now + step <= maxTicks * step
  /\ now' = now + step
  /\ UNCHANGED <<cyl, scans, history, proc, started, vin, vout, orders, deliveries, vehicles, assignments, users>>

(***************************************************************************)
(* A direct call of Cylinder.verify_authenticity on a cylinder instance.   *)
(***************************************************************************)
NoCall == [called |-> FALSE]

VerifyCallFlagsInstance ==
  /\ vin.called
  /\ vout = NoCall
  /\ LET r == verify_authenticity(vin.row, vin.code, vin.code_type)
     IN /\ vout' = [called |-> TRUE, ok |-> r[1], reason |-> r[2], date |-> DateOf(now),
                    again |-> NoCall]
        /\ vin' = [vin EXCEPT !.row.is_authentic = r[1]]
  /\ UNCHANGED <<cyl, scans, history, now, proc, started, orders, deliveries, vehicles, assignments, users>>

VerifyCall ==
  /\ vin.called
  /\ vout = NoCall
  /\ LET r == verify_authenticity(vin.row, vin.code, vin.code_type)
     IN vout' = [called |-> TRUE, ok |-> r[1], reason |-> r[2], date |-> DateOf(now),
                 again |-> NoCall]
  /\ UNCHANGED <<cyl, scans, history, now, proc, started, vin, orders, deliveries, vehicles, assignments, users>>

VerifyCallAgain ==
  /\ vout.called
  /\ ~vout.again.called
  /\ LET r == verify_authenticity(vin.row, vin.code, vin.code_type)
     IN vout' = [vout EXCEPT !.again =
                   [called |-> TRUE, ok |-> r[1], reason |-> r[2], date |-> DateOf(now)]]
  /\ UNCHANGED <<cyl, scans, history, now, proc, started, vin, orders, deliveries, vehicles, assignments, users>>

(***************************************************************************)
(* Initial states: one registered cylinder, empty scan ledger, and the     *)
(* REGISTERED event that register_cylinder wrote for it.                   *)
(***************************************************************************)
Expiries == {Today - 1, Today + 1}

InitFleetTables ==
  /\ orders = [o \in Orders |-> NewOrder("cust1")]
  /\ deliveries = <<>>
  /\ vehicles = [v \in Vehicles |-> NewVehicle(<<"K", "A", v>>, "ACTIVE")]
  /\ assignments = <<DriverAssignment("drv1", "v1"), DriverAssignment("drv2", "v2")>>

InitUsers(inactive) ==
  users = [u \in Users \cup Drivers \cup Admins |-> [is_active |-> u \notin inactive]]

InitFleet == InitFleetTables /\ InitUsers({})

InitDb(statusSet, tamperSet, authSet, expirySet) ==
  /\ InitFleet
  /\ \E st \in statusSet, t \in tamperSet, a \in authSet, e \in expirySet :
       cyl = [c \in CylIds |-> NewCylinder(c, st, t, a, e)]
  /\ scans = <<>>
  /\ history = <<HistoryEvent("c1", "REGISTERED", "disp1", NoRef, NoRef, "", "", "", NoData)>>
  /\ now = 0
  /\ proc = [p \in Procs |-> Idle]
  /\ started = 0

Init ==
  /\ InitDb(Statuses, {FALSE}, {TRUE}, {Today + 1})
  /\ vin = NoCall
  /\ vout = NoCall

InitSeq ==
  /\ InitDb(Statuses, BOOLEAN, BOOLEAN, Expiries)
  /\ vin = NoCall
  /\ vout = NoCall

InitRapid ==
  /\ InitDb({"ACTIVE"}, {FALSE}, {TRUE}, {Today + 1})
  /\ vin = NoCall
  /\ vout = NoCall

InitVerify ==
  /\ InitDb({"ACTIVE"}, {FALSE}, {TRUE}, {Today + 1})
  /\ \E st \in Statuses, t \in BOOLEAN, a \in BOOLEAN, e \in Expiries,
        code \in {<<"QR-", "C1">>, <<"RFID-", "C1">>, <<"QR-", "ZZ">>}, ct \in {"qr", "rfid", "manual"} :
       vin = [called |-> TRUE, row |-> NewCylinder("c1", st, t, a, e),
              code |-> code, code_type |-> ct]
  /\ vout = NoCall

InitAuth ==
  /\ InitFleetTables
  /\ \E inactive \in SUBSET {"drv1"} : InitUsers(inactive)
  /\ cyl = [c \in CylIds |-> NewCylinder(c, "ACTIVE", FALSE, TRUE, Today + 1)]
  /\ scans = <<>>
  /\ history = <<HistoryEvent("c1", "REGISTERED", "disp1", NoRef, NoRef, "", "", "", NoData)>>
  /\ now = 0
  /\ proc = [p \in Procs |-> Idle]
  /\ started = 0
  /\ vin = NoCall
  /\ vout = NoCall

InitDispatch ==
  /\ orders = [o \in {"o1", "o2"} |-> NewOrder("cust1")]
  /\ deliveries = <<>>
  /\ vehicles = [v \in Vehicles |-> NewVehicle(<<"K", "A", v>>, "ACTIVE")]
  /\ assignments = <<DriverAssignment("drv1", "v1"), DriverAssignment("drv2", "v2")>>
  /\ InitUsers({})
  /\ cyl = [c \in CylIds |-> NewCylinder(c, "ACTIVE", FALSE, TRUE, Today + 1)]
  /\ scans = <<>>
  /\ history = <<HistoryEvent("c1", "REGISTERED", "disp1", NoRef, NoRef, "", "", "", NoData)>>
  /\ now = 0
  /\ proc = [p \in Procs |-> Idle]
  /\ started = 0
  /\ vin = NoCall
  /\ vout = NoCall

(***************************************************************************)
(* Request inputs drawn in each specification.                             *)
(***************************************************************************)
ConcInputs ==
  [ scanners |-> {"cust1"}, codes |-> {<<"QR-", "C1">>}, types |-> {"QR"},
    lats |-> {Null}, lngs |-> {Null}, addrs |-> {"", "Depot"},
    actors |-> {"disp1"}, cids |-> {"c1"}, statuses |-> Statuses,
    orders |-> {NoRef, "o1"}, customers |-> {NoRef, "cust1"} ]

SeqInputs ==
  [ scanners |-> {"cust1"}, codes |-> {<<"QR-", "C1">>, <<"RFID-", "C1">>, <<"QR-", "ZZ">>},
    types |-> {"QR", "RFID", "MANUAL"},
    lats |-> {Null}, lngs |-> {Null}, addrs |-> {""},
    actors |-> Users, cids |-> {"c1", "c9"}, statuses |-> Statuses,
    orders |-> {NoRef, "o1"}, customers |-> {NoRef, "cust1"} ]

GeoInputs ==
  [ scanners |-> {"cust1"}, codes |-> {<<"QR-", "C1">>}, types |-> {"QR"},
    lats |-> {Null, 0, 1, 6}, lngs |-> {Null, 0, 1, 6}, addrs |-> {""},
    actors |-> {"disp1"}, cids |-> {"c1"}, statuses |-> Statuses,
    orders |-> {NoRef}, customers |-> {NoRef} ]

RapidInputs ==
  [ scanners |-> {"cust1"}, codes |-> {<<"QR-", "C1">>}, types |-> {"QR"},
    lats |-> {Null}, lngs |-> {Null}, addrs |-> {""},
    actors |-> {"disp1"}, cids |-> {"c1"}, statuses |-> Statuses,
    orders |-> {NoRef}, customers |-> {NoRef} ]

AnomalyInputs ==
  [ scanners |-> {"cust1"}, codes |-> {<<"QR-", "C1">>}, types |-> {"QR"},
    lats |-> {1, 7}, lngs |-> {1}, addrs |-> {""},
    actors |-> {"disp1"}, cids |-> {"c1"}, statuses |-> Statuses,
    orders |-> {NoRef}, customers |-> {NoRef} ]

RegRequest(actor, serial, capacity, manufactured, expiry) ==
  [ actor |-> actor, serial_number |-> serial, capacity_kg |-> capacity,
    manufacturing_date |-> manufactured, expiry_date |-> expiry ]

RegRequests ==
  { RegRequest("disp1", <<"c", "y", "l", "-", "2">>, 13, Today - 1, Today + 1),
    RegRequest("disp1", <<" ", "c", "y", "l", "-", "2", " ">>, 13, Today - 1, Today + 1),
    RegRequest("disp1", <<"C", "Y", "L", "-", "1">>, 13, Today - 1, Today + 1),
    RegRequest("disp1", <<"c", "y", "l", "-", "1">>, 13, Today - 1, Today + 1),
    RegRequest("disp1", <<"c", "y", "l", "2">>, 13, Today - 1, Today + 1),
    RegRequest("disp1", <<"c", "y", "!", "-", "2">>, 13, Today - 1, Today + 1),
    RegRequest("cust1", <<"c", "y", "l", "-", "2">>, 13, Today - 1, Today + 1),
    RegRequest("disp1", <<"c", "y", "l", "-", "2">>, 0, Today - 1, Today + 1),
    RegRequest("disp1", <<"c", "y", "l", "-", "2">>, MaxCapacityKg + 1, Today - 1, Today + 1),
    RegRequest("disp1", <<"c", "y", "l", "-", "2">>, 13, Today + 1, Today + 2),
    RegRequest("disp1", <<"c", "y", "l", "-", "2">>, 13, Today - Years(MaxAgeYears) - 1, Today + 1),
    RegRequest("disp1", <<"c", "y", "l", "-", "2">>, 13, Today - 1, Today),
    RegRequest("disp1", <<"c", "y", "l", "-", "2">>, 13, Today - 1, Today + Years(MaxLifespanYears)) }

RegInputs ==
  [ scanners |-> {"cust1"}, codes |-> {<<"QR-", "C1">>, <<"QR-", "A2">>}, types |-> {"QR"},
    lats |-> {Null}, lngs |-> {Null}, addrs |-> {""},
    actors |-> {"disp1"}, cids |-> {"c1", "c2"}, statuses |-> {"FILLED", "RETIRED"},
    orders |-> {NoRef, "o1"}, customers |-> {NoRef},
    regs |-> RegRequests ]

OrderSeqInputs ==
  [ order_actors |-> {"disp1", "adm1", "drv1", "drv2", "cust1"}, oids |-> {"o1", "o9"},
    order_statuses |-> OrderStatuses \cup {NoRef},
    driver_ids |-> {NoRef, "drv1", "drv2", "cust1"}, vehicle_ids |-> {NoRef, "v2", "v9"} ]

OrderConcInputs ==
  [ order_actors |-> {"disp1"}, oids |-> {"o1"},
    order_statuses |-> {"ASSIGNED", "ON_ROUTE", "DELIVERED", "CANCELLED"},
    driver_ids |-> {NoRef, "drv2"}, vehicle_ids |-> {NoRef} ]

RoleActors == {"disp1", "adm1", "cust1", "drv1"}

RoleInputs ==
  [ actors |-> RoleActors, cids |-> {"c1"}, statuses |-> {"FILLED"}, addrs |-> {""},
    orders |-> {NoRef, "o1"}, customers |-> {NoRef},
    regs |-> { RegRequest(a, s, 13, Today - 1, Today + 1) :
                 a \in RoleActors,
                 s \in {<<"c", "y", "l", "-", "2">>, <<"c", "y", "l", "-", "1">>} },
    order_actors |-> RoleActors, oids |-> {"o1"},
    driver_ids |-> {NoRef, "drv1"}, vehicle_ids |-> {NoRef},
    quantities |-> {0, 13}, schedules |-> {0, SecondsPerDay},
    plates |-> {<<"k", "a", "3">>, <<"k", "a", "v1">>, <<"K", "A", "v1">>},
    capacities |-> {0, 500}, vehicle_statuses |-> {"ACTIVE"},
    fleet_vehicle_ids |-> {"v1", "v9"}, fleet_driver_ids |-> {NoRef, "drv1"} ]

AuthInputs ==
  [ bearers |-> {NoBearer} \cup
      { Token(signed, token_type, user_id, exp) :
          signed \in BOOLEAN, token_type \in {"access", "refresh"},
          user_id \in {"cust1", "drv1", "gone"},
          exp \in {AccessTokenLifetime, RefreshTokenLifetime} } ]

SignoutInputs ==
  [ bearers |-> { NoBearer,
                  Token(TRUE, "access", "cust1", AccessTokenLifetime),
                  Token(TRUE, "access", "drv1", 2 * AccessTokenLifetime),
                  Token(TRUE, "refresh", "cust1", RefreshTokenLifetime) } ]

HistoryInputs ==
  [ actors |-> {"disp1", "adm1", "cust1", "drv1", "drv2"}, cids |-> {"c1", "c9"},
    orders |-> {NoRef, "o1"}, customers |-> {NoRef, "cust1"},
    order_actors |-> {"disp1"}, oids |-> {"o1"},
    driver_ids |-> {NoRef}, vehicle_ids |-> {NoRef},
    event_types |-> {NoRef, "DELIVERED"} ]

FleetInputs ==
  [ order_actors |-> {"disp1"}, fleet_vehicle_ids |-> {"v1", "v2"},
    fleet_driver_ids |-> {NoRef, "drv1", "drv2"} ]

DispatchInputs ==
  [ order_actors |-> {"disp1"}, oids |-> {"o1", "o2"},
    driver_ids |-> {NoRef, "drv2"}, vehicle_ids |-> {NoRef} ]

(***************************************************************************)
(* Spec: requests served by two workers in parallel.                       *)
(***************************************************************************)
Next ==
  \/ \E p \in Procs : ScanBegin(p, MaxReq, ConcInputs)
  \/ \E p \in Procs : ScanDetect(p)
  \/ \E p \in Procs : ScanCommit(p)
  \/ \E p \in Procs : ScanAbort(p)
  \/ \E p \in Procs : UpdateBegin(p, MaxReq, ConcInputs)
  \/ \E p \in Procs : UpdateCommit(p)
  \/ \E p \in Procs : AssignBegin(p, MaxReq, ConcInputs)
  \/ \E p \in Procs : AssignCommit(p)
  \/ AdminMarkTampered

Spec == Init /\ [][Next]_vars

(***************************************************************************)
(* SpecSeq: one worker, requests served one after the other.               *)
(***************************************************************************)
NextSeq ==
  \/ ScanBegin("w1", MaxReqSeq, SeqInputs)
  \/ ScanDetect("w1")
  \/ ScanCommit("w1")
  \/ UpdateBegin("w1", MaxReqSeq, SeqInputs)
  \/ UpdateCommit("w1")
  \/ AssignBegin("w1", MaxReqSeq, SeqInputs)
  \/ AssignCommit("w1")

SpecSeq == InitSeq /\ [][NextSeq]_vars

(***************************************************************************)
(* SpecGeo: one worker, scans with and without coordinates, five minutes   *)
(* apart or within the same minute.                                        *)
(***************************************************************************)
NextGeo ==
  \/ ScanBegin("w1", MaxReqGeo, GeoInputs)
  \/ ScanDetect("w1")
  \/ ScanCommit("w1")
  \/ Tick(TravelWindowSec, MaxTicksGeo)

SpecGeo == InitRapid /\ [][NextGeo]_vars

(***************************************************************************)
(* SpecRapid: one worker scanning one cylinder again and again.            *)
(***************************************************************************)
NextRapid ==
  \/ ScanBegin("w1", MaxReqRapid, RapidInputs)
  \/ ScanDetect("w1")
  \/ ScanCommit("w1")
  \/ Tick(TickSec, MaxTicksRapid)

SpecRapid == InitRapid /\ [][NextRapid]_vars

(***************************************************************************)
(* SpecAnomaly: one worker scanning one cylinder from two places, often    *)
(* enough for the rapid-repeat rule and the travel rule to fire together.  *)
(***************************************************************************)
NextAnomaly ==
  \/ ScanBegin("w1", MaxReqAnomaly, AnomalyInputs)
  \/ ScanDetect("w1")
  \/ ScanCommit("w1")
  \/ Tick(TravelWindowSec, MaxTicksAnomaly)

SpecAnomaly == InitRapid /\ [][NextAnomaly]_vars

(***************************************************************************)
(* SpecScans: two workers, scan requests only.                             *)
(***************************************************************************)
NextScans ==
  \/ \E p \in Procs : ScanBegin(p, MaxReq, ConcInputs)
  \/ \E p \in Procs : ScanDetect(p)
  \/ \E p \in Procs : ScanCommit(p)

SpecScans == Init /\ [][NextScans]_vars

(***************************************************************************)
(* SpecVerify: verify_authenticity applied to every cylinder state.        *)
(***************************************************************************)
NextVerify == VerifyCall

SpecVerify == InitVerify /\ [][NextVerify]_vars

(***************************************************************************)
(* SpecVerifyTwice: verify_authenticity called twice on the same cylinder  *)
(* instance with the same code, while days go by.                          *)
(***************************************************************************)
NextVerifyTwice ==
  \/ VerifyCall
  \/ VerifyCallAgain
  \/ Tick(SecondsPerDay, MaxDays)

SpecVerifyTwice == InitVerify /\ [][NextVerifyTwice]_vars

(***************************************************************************)
(* SpecReg: one worker registering cylinders and then scanning, updating   *)
(* and assigning the cylinders that exist.                                 *)
(***************************************************************************)
NextReg ==
  \/ RegBegin("w1", MaxReqReg, RegInputs)
  \/ RegCommit("w1")
  \/ RegAbort("w1")
  \/ ScanBegin("w1", MaxReqReg, RegInputs)
  \/ ScanDetect("w1")
  \/ ScanCommit("w1")
  \/ ScanAbort("w1")
  \/ UpdateBegin("w1", MaxReqReg, RegInputs)
  \/ UpdateCommit("w1")
  \/ AssignBegin("w1", MaxReqReg, RegInputs)
  \/ AssignCommit("w1")

SpecReg == InitRapid /\ [][NextReg]_vars

(***************************************************************************)
(* SpecUpdates: two workers, update_cylinder_status requests only.         *)
(***************************************************************************)
NextUpdates ==
  \/ \E p \in Procs : UpdateBegin(p, MaxReq, ConcInputs)
  \/ \E p \in Procs : UpdateCommit(p)

SpecUpdates == Init /\ [][NextUpdates]_vars

(***************************************************************************)
(* SpecOrdersSeq: one worker serving assign_driver and update_order_status *)
(* requests one after the other.                                           *)
(***************************************************************************)
NextOrdersSeq ==
  \/ DriverAssignBegin("w1", MaxReqOrd, OrderSeqInputs)
  \/ DriverAssignSelect("w1")
  \/ DriverAssignCommit("w1")
  \/ OrderUpdateBegin("w1", MaxReqOrd, OrderSeqInputs)
  \/ OrderUpdateCommit("w1")

SpecOrdersSeq == InitRapid /\ [][NextOrdersSeq]_vars

(***************************************************************************)
(* SpecOrders: two workers serving assign_driver and update_order_status   *)
(* requests in parallel.                                                   *)
(***************************************************************************)
NextOrders ==
  \/ \E p \in Procs : DriverAssignBegin(p, MaxReqOrdConc, OrderConcInputs)
  \/ \E p \in Procs : DriverAssignSelect(p)
  \/ \E p \in Procs : DriverAssignCommit(p)
  \/ \E p \in Procs : OrderUpdateBegin(p, MaxReqOrdConc, OrderConcInputs)
  \/ \E p \in Procs : OrderUpdateCommit(p)

SpecOrders == InitRapid /\ [][NextOrders]_vars

(***************************************************************************)
(* SpecRoles: one worker serving the state-changing operations that are    *)
(* gated by role, requested by actors of every role.                       *)
(***************************************************************************)
NextRoles ==
  \/ RegBegin("w1", MaxReqRoles, RoleInputs)
  \/ RegCommit("w1")
  \/ RegAbort("w1")
  \/ AssignBegin("w1", MaxReqRoles, RoleInputs)
  \/ AssignCommit("w1")
  \/ UpdateBegin("w1", MaxReqRoles, RoleInputs)
  \/ UpdateCommit("w1")
  \/ DriverAssignBegin("w1", MaxReqRoles, RoleInputs)
  \/ DriverAssignSelect("w1")
  \/ DriverAssignCommit("w1")
  \/ CreateOrder("w1", MaxReqRoles, RoleInputs)
  \/ VehicleCreateBegin("w1", MaxReqRoles, RoleInputs)
  \/ VehicleCreateCommit("w1")
  \/ FleetAssignBegin("w1", MaxReqRoles, RoleInputs)
  \/ FleetAssignLock("w1")
  \/ FleetAssignCommit("w1")

SpecRoles == InitRapid /\ [][NextRoles]_vars

(***************************************************************************)
(* SpecAuth: one worker authenticating requests and refreshing tokens      *)
(* while access-token lifetimes go by.                                     *)
(***************************************************************************)
NextAuth ==
  \/ Authenticate("w1", MaxReqAuth, AuthInputs)
  \/ RefreshToken("w1", MaxReqAuth, AuthInputs)
  \/ Tick(AccessTokenLifetime, MaxTicksAuth)

SpecAuth == InitAuth /\ [][NextAuth]_vars

(***************************************************************************)
(* SpecSignout: two workers serving signout requests and requests to an    *)
(* endpoint that requires an authenticated user, while time goes by.       *)
(***************************************************************************)
NextSignout ==
  \/ \E p \in Procs : Signout(p, MaxReqSignout, SignoutInputs)
  \/ \E p \in Procs : Authenticate(p, MaxReqSignout, SignoutInputs)
  \/ Tick(AccessTokenLifetime, MaxTicksSignout)

SpecSignout == InitAuth /\ [][NextSignout]_vars

(***************************************************************************)
(* SpecHistory: one worker assigning a driver to the order and the         *)
(* cylinder to the order or to a customer, and serving history requests of *)
(* actors of every role.                                                   *)
(***************************************************************************)
NextHistory ==
  \/ DriverAssignBegin("w1", MaxReqHist, HistoryInputs)
  \/ DriverAssignSelect("w1")
  \/ DriverAssignCommit("w1")
  \/ AssignBegin("w1", MaxReqHist, HistoryInputs)
  \/ AssignCommit("w1")
  \/ GetHistory("w1", MaxReqHist, HistoryInputs)

SpecHistory == InitRapid /\ [][NextHistory]_vars

(***************************************************************************)
(* SpecFleet: two workers serving assign_driver_to_vehicle requests        *)
(* (assign and unassign) in parallel.                                      *)
(***************************************************************************)
NextFleet ==
  \/ \E p \in Procs : FleetAssignBegin(p, MaxReqFleet, FleetInputs)
  \/ \E p \in Procs : FleetAssignLock(p)
  \/ \E p \in Procs : FleetAssignCommit(p)

SpecFleet == InitRapid /\ [][NextFleet]_vars

(***************************************************************************)
(* SpecDispatch: two workers serving assign_driver requests for two        *)
(* pending orders in parallel.                                             *)
(***************************************************************************)
NextDispatch ==
  \/ \E p \in Procs : DriverAssignBegin(p, MaxReqDispatch, DispatchInputs)
  \/ \E p \in Procs : DriverAssignSelect(p)
  \/ \E p \in Procs : DriverAssignCommit(p)

SpecDispatch == InitDispatch /\ [][NextDispatch]_vars

TypeOK ==
  /\ \A c \in DOMAIN cyl : cyl[c].status \in Statuses /\ cyl[c].total_scans \in Nat
  /\ now \in Nat
  /\ started \in Nat

(***************************************************************************)
(* Helpers of the properties.                                              *)
(***************************************************************************)
ScansOf(c) == {i \in 1..Len(scans) : scans[i].cylinder = c}

ScannedEventsOf(c) ==
  {i \in 1..Len(history) : history[i].cylinder = c /\ history[i].event_type = "SCANNED"}

Done(p, o) == proc[p].pc = "idle" /\ proc[p].op = o

TransitionTable ==
  { <<"ACTIVE", "FILLED">>, <<"ACTIVE", "MAINTENANCE">>, <<"ACTIVE", "RETIRED">>,
    <<"ACTIVE", "STOLEN">>,
    <<"FILLED", "IN_DELIVERY">>, <<"FILLED", "EMPTY">>, <<"FILLED", "MAINTENANCE">>,
    <<"IN_DELIVERY", "FILLED">>, <<"IN_DELIVERY", "EMPTY">>,
    <<"EMPTY", "FILLED">>, <<"EMPTY", "MAINTENANCE">>, <<"EMPTY", "RETIRED">>,
    <<"MAINTENANCE", "ACTIVE">>, <<"MAINTENANCE", "RETIRED">>,
    <<"STOLEN", "ACTIVE">> }

(***************************************************************************)
(* C1: a status update requested by a dispatcher for an existing cylinder  *)
(* is accepted iff (current status, requested status) is an edge of the    *)
(* transition table; an accepted update stores the requested status and    *)
(* appends exactly one STATUS_CHANGE event; a rejected one answers 400 and *)
(* changes neither the cylinder nor the history ledger.                    *)
(***************************************************************************)
UpdateDecided(p) ==
  /\ proc[p].pc = "idle"
  /\ proc'[p].op = "update"
  /\ started' = started + 1
  /\ IsDispatcherOrAdmin(proc'[p].inp.actor)
  /\ proc'[p].inp.cylinder_id \in CylIds

UpdateDecisionOK(p) ==
  LET c == proc'[p].inp.cylinder_id
      edge == <<cyl[c].status, proc'[p].inp.status>> \in TransitionTable
  IN /\ (proc'[p].pc = "upd_tx") <=> edge
     /\ ~edge => /\ proc'[p].pc = "idle"
                 /\ proc'[p].resp.code = 400
                 /\ cyl' = cyl
                 /\ history' = history

UpdateApplied(p) == proc[p].pc = "upd_tx" /\ proc'[p].pc = "idle"

UpdateEffectOK(p) ==
  LET c == proc[p].cid
  IN /\ proc'[p].resp.code = 200
     /\ cyl'[c].status = proc[p].inp.status
     /\ Len(history') = Len(history) + 1
     /\ SubSeq(history', 1, Len(history)) = history
     /\ history'[Len(history')].event_type = "STATUS_CHANGE"
     /\ history'[Len(history')].cylinder = c
     /\ history'[Len(history')].new_status = proc[p].inp.status

C1_TransitionTable ==
  [][\A p \in Procs : /\ UpdateDecided(p) => UpdateDecisionOK(p)
                      /\ UpdateApplied(p) => UpdateEffectOK(p)]_vars

C1_Witness ==
  /\ Done("w1", "update")
  /\ proc["w1"].resp.code = 200
  /\ proc["w1"].resp.seen = "STOLEN"
  /\ cyl["c1"].status = "ACTIVE"
  /\ history[Len(history)].event_type = "STATUS_CHANGE"

(***************************************************************************)
(* C2: once the stored status of a cylinder is RETIRED it stays RETIRED.   *)
(***************************************************************************)
C2_RetiredIsTerminal ==
  [][\A c \in CylIds : cyl[c].status = "RETIRED" => cyl'[c].status = "RETIRED"]_vars

(***************************************************************************)
(* C3: no scan is lost from the counter: the stored total_scans of a       *)
(* cylinder equals the number of scans committed for it.                   *)
(***************************************************************************)
C3_NoLostScanUpdate ==
  \A c \in CylIds : cyl[c].total_scans = Cardinality(ScansOf(c))

(***************************************************************************)
(* C4: once the stored is_tampered of a cylinder is true it stays true.    *)
(***************************************************************************)
C4_TamperedIsSticky ==
  [][\A c \in CylIds : cyl[c].is_tampered => cyl'[c].is_tampered]_vars

(***************************************************************************)
(* C5: the commit of a scan leaves the stored status, current_customer,    *)
(* current_order, is_authentic and is_tampered of the cylinder as they     *)
(* were committed by the other operations.                                 *)
(***************************************************************************)
ScanCommitted(p) ==
  /\ proc[p].pc = "scan_tx"
  /\ proc'[p].pc = "idle"
  /\ proc'[p].resp.code = 200

C5_ScanFrame ==
  [][\A p \in Procs : ScanCommitted(p) =>
        LET c == proc[p].cid
        IN /\ cyl'[c].status = cyl[c].status
           /\ cyl'[c].current_customer = cyl[c].current_customer
           /\ cyl'[c].current_order = cyl[c].current_order
           /\ cyl'[c].is_authentic = cyl[c].is_authentic
           /\ cyl'[c].is_tampered = cyl[c].is_tampered]_vars

(***************************************************************************)
(* C6: the scan transaction is all-or-nothing: in every state each         *)
(* cylinder has as many scan events as SCANNED history events, and a scan  *)
(* whose transaction fails at any of its three writes leaves the scan      *)
(* ledger, the history ledger and the cylinder unchanged.                  *)
(***************************************************************************)
ScanFailed(p) ==
  /\ proc[p].pc = "scan_tx"
  /\ proc'[p].pc = "idle"
  /\ proc'[p].resp.code = 500

C6_ScanAllOrNothing ==
  /\ [](\A c \in CylIds : Cardinality(ScansOf(c)) = Cardinality(ScannedEventsOf(c)))
  /\ [][\A p \in Procs : ScanFailed(p) =>
          /\ scans' = scans
          /\ history' = history
          /\ cyl' = cyl]_vars

C6_Witness ==
  /\ Done("w1", "scan")
  /\ proc["w1"].resp.code = 500
  /\ proc["w1"].resp.cause = "DatabaseError"
  /\ proc["w1"].resp.failed_at = 3
  /\ Done("w2", "scan")
  /\ proc["w2"].resp.code = 200
  /\ Len(scans) = 1

(***************************************************************************)
(* C7: the scan_result of every recorded scan is the class of the          *)
(* verifier's reason: SUCCESS for the success message, TAMPERED for the    *)
(* tampering message, STOLEN for the stolen message, EXPIRED for the       *)
(* expiry message and FAILED for every other reason.                       *)
(***************************************************************************)
ClassOfReason(message) ==
  CASE message = MsgVerified -> "SUCCESS"
    [] message = MsgTampered -> "TAMPERED"
    [] message = MsgStolen -> "STOLEN"
    [] message = MsgExpired -> "EXPIRED"
    [] OTHER -> "FAILED"

C7_ResultFollowsReason ==
  \A i \in 1..Len(scans) : scans[i].scan_result = ClassOfReason(scans[i].verification_message)

(***************************************************************************)
(* C8: verify_authenticity answers with the first failing check in the     *)
(* order code mismatch, tampered, not authentic, retired, stolen, expired, *)
(* and with (true, verified) iff no check fails.                           *)
(***************************************************************************)
Checks(row, code, code_type) ==
  << [fails |-> (code_type = "qr" /\ code # row.qr_code) \/ (code_type = "rfid" /\ code # row.rfid_tag),
      reason |-> IF code_type = "qr" THEN MsgInvalidQr ELSE MsgInvalidRfid],
     [fails |-> row.is_tampered, reason |-> MsgTampered],
     [fails |-> row.is_authentic = FALSE, reason |-> MsgNonAuthentic],
     [fails |-> row.status = "RETIRED", reason |-> MsgRetired],
     [fails |-> row.status = "STOLEN", reason |-> MsgStolen],
     [fails |-> row.expiry_date < Today, reason |-> MsgExpired] >>

FailingChecks(row, code, code_type) ==
  {k \in 1..6 : Checks(row, code, code_type)[k].fails}

C8_FirstFailingCheckWins ==
  vout.called =>
    LET failing == FailingChecks(vin.row, vin.code, vin.code_type)
    IN /\ vout.ok <=> failing = {}
       /\ failing = {} => vout.reason = MsgVerified
       /\ failing # {} =>
            \E k \in failing :
              /\ \A j \in failing : k <= j
              /\ vout.reason = Checks(vin.row, vin.code, vin.code_type)[k].reason

C8_Witness ==
  /\ vout.called
  /\ vin.row.is_tampered
  /\ ~vin.row.is_authentic
  /\ vin.row.status = "RETIRED"
  /\ vin.row.expiry_date < Today
  /\ vout.ok = FALSE
  /\ vout.reason = MsgTampered

(***************************************************************************)
(* C9: a scan is flagged by the rapid-repeat rule iff it is the 6th or a   *)
(* later scan of its cylinder inside the five minutes that end with it.    *)
(***************************************************************************)
InWindowUpTo(i) ==
  {j \in 1..i : /\ scans[j].cylinder = scans[i].cylinder
                /\ scans[j].scan_timestamp >= scans[i].scan_timestamp - RapidWindowSec}

RapidFlagged(i) ==
  /\ scans[i].is_suspicious
  /\ \E k \in 1..Len(scans[i].suspicious_reason) : scans[i].suspicious_reason[k] = RapidMsg

C9_SixthRapidScanFlagged ==
  \A i \in 1..Len(scans) : RapidFlagged(i) <=> Cardinality(InWindowUpTo(i)) >= 6

(***************************************************************************)
(* C10: every QR or RFID scan whose code resolves to a cylinder answers    *)
(* 200 with a verified / scan_result payload and is recorded in both       *)
(* ledgers, whatever the earlier scans of the cylinder were.               *)
(***************************************************************************)
C10_AnomalyNeverBlocks ==
  \A p \in Procs :
    (/\ Done(p, "scan")
     /\ proc[p].inp.scan_type \in {"QR", "RFID"}
     /\ FindByCode(proc[p].inp.scan_type, proc[p].inp.code) # {})
    => /\ proc[p].resp.code = 200
       /\ proc[p].resp.scan_result \in {"SUCCESS", "TAMPERED", "STOLEN", "EXPIRED", "FAILED"}
       /\ Len(scans) = started
       /\ Len(history) = 1 + started

(***************************************************************************)
(* Resolution of a code as the scan types define it: a QR scan by qr_code, *)
(* an RFID scan by rfid_tag, a MANUAL scan by either.                      *)
(***************************************************************************)
Resolves(scan_type, code) ==
  \E c \in DOMAIN cyl :
    \/ scan_type \in {"QR", "MANUAL"} /\ cyl[c].qr_code = code
    \/ scan_type \in {"RFID", "MANUAL"} /\ cyl[c].rfid_tag = code

ScanAnswered(p) ==
  /\ proc[p].pc = "idle"
  /\ proc'[p].pc = "idle"
  /\ proc'[p].op = "scan"
  /\ started' = started + 1

(***************************************************************************)
(* C11: a scan of any type whose code matches no cylinder answers 404 with *)
(* verified=false and scan_result=FAILED, and writes nothing.              *)
(***************************************************************************)
C11_UnknownCodeNotFound ==
  [][\A p \in Procs :
       (ScanAnswered(p) /\ ~Resolves(proc'[p].inp.scan_type, proc'[p].inp.code)) =>
         /\ proc'[p].resp.code = 404
         /\ proc'[p].resp.verified = FALSE
         /\ proc'[p].resp.scan_result = "FAILED"
         /\ scans' = scans
         /\ history' = history
         /\ cyl' = cyl]_vars

(***************************************************************************)
(* C12: every scan that resolves a cylinder is recorded whatever the       *)
(* verifier said: once k scans of the cylinder have been served one after  *)
(* the other, the cylinder has k scan events, k SCANNED history events and *)
(* total_scans = k; the scan of a tampered cylinder answers verified=false *)
(* with scan_result TAMPERED and the tampering message.                    *)
(***************************************************************************)
C12_EveryResolvedScanRecorded ==
  (/\ Done("w1", "scan")
   /\ proc["w1"].inp.scan_type \in {"QR", "RFID"}
   /\ FindByCode(proc["w1"].inp.scan_type, proc["w1"].inp.code) = {"c1"})
  => /\ Cardinality(ScansOf("c1")) = started
     /\ Cardinality(ScannedEventsOf("c1")) = started
     /\ cyl["c1"].total_scans = started
     /\ proc["w1"].resp.code = 200
     /\ cyl["c1"].is_tampered =>
          /\ proc["w1"].resp.verified = FALSE
          /\ proc["w1"].resp.scan_result = "TAMPERED"
          /\ proc["w1"].resp.message = MsgTampered

(***************************************************************************)
(* C13: when the anomaly checks of a scan are evaluated, a scan carrying a *)
(* latitude and a longitude (0 included) is flagged with the               *)
(* impossible-travel reason iff the cylinder has an earlier scan event     *)
(* with coordinates, the most recent of them is less than 300 seconds old  *)
(* and the latitudes or the longitudes differ by more than 0.5 degrees; a  *)
(* scan without coordinates is never flagged by this rule.                 *)
(***************************************************************************)
WithCoordinates(c) ==
  {i \in 1..Len(scans) : /\ scans[i].cylinder = c
                         /\ scans[i].scan_location_lat # Null
                         /\ scans[i].scan_location_lng # Null}

ImpossibleTravel(c, lat, lng, t) ==
  /\ lat # Null
  /\ lng # Null
  /\ WithCoordinates(c) # {}
  /\ LET last == scans[CHOOSE i \in WithCoordinates(c) : \A j \in WithCoordinates(c) : j <= i]
     IN /\ t - last.scan_timestamp < 300
        /\ \/ Abs(lat - last.scan_location_lat) > 5
           \/ Abs(lng - last.scan_location_lng) > 5

AnomaliesEvaluated(p) == proc[p].pc = "scan_detect" /\ proc'[p].pc # "scan_detect"

TravelFlagged(s) ==
  /\ s.pc = "scan_tx"
  /\ s.is_suspicious
  /\ \E k \in 1..Len(s.suspicious_reason) : s.suspicious_reason[k] = TravelMsg

C13_ImpossibleTravelRule ==
  [][\A p \in Procs : AnomaliesEvaluated(p) =>
       (TravelFlagged(proc'[p]) <=>
          ImpossibleTravel(proc[p].cid, proc[p].inp.lat, proc[p].inp.lng, now))]_vars

(***************************************************************************)
(* C14: concurrent update_cylinder_status requests on one cylinder are     *)
(* serialized: every committed change appends a STATUS_CHANGE event whose  *)
(* previous_status is the status stored just before the commit, and        *)
(* (previous_status, new_status) is an edge of the transition table.       *)
(***************************************************************************)
C14_StatusChangesSerialized ==
  [][\A p \in Procs : UpdateApplied(p) =>
       LET e == history'[Len(history')]
       IN /\ Len(history') = Len(history) + 1
          /\ e.event_type = "STATUS_CHANGE"
          /\ e.previous_status = cyl[proc[p].cid].status
          /\ e.new_status = cyl'[proc[p].cid].status
          /\ <<e.previous_status, e.new_status>> \in TransitionTable]_vars

(***************************************************************************)
(* C15: an assignment applied while the stored status of the cylinder is   *)
(* RETIRED or STOLEN is rejected: it leaves the cylinder row unchanged and *)
(* appends no history event, even when that status was committed by a      *)
(* concurrent request after the assignment was validated.                  *)
(***************************************************************************)
AssignApplied(p) == proc[p].pc = "asg_tx" /\ proc'[p].pc = "idle"

C15_NoAssignmentOfRetiredOrStolen ==
  [][\A p \in Procs :
       (AssignApplied(p) /\ cyl[proc[p].cid].status \in {"RETIRED", "STOLEN"}) =>
         /\ proc'[p].resp.code # 200
         /\ cyl' = cyl
         /\ history' = history]_vars

(***************************************************************************)
(* C18: every assign_cylinder_to_order call answered 200 appends exactly   *)
(* one history event: with an order, current_order is the order,           *)
(* current_customer the order's customer, status IN_DELIVERY and the event *)
(* is DELIVERED; with a customer only, current_customer is set,            *)
(* current_order is cleared, status is unchanged and the event is          *)
(* CUSTOMER_ASSIGNED.                                                      *)
(***************************************************************************)
C18_AssignAppendsOneEvent ==
  [][\A p \in Procs :
       (AssignApplied(p) /\ proc'[p].resp.code = 200) =>
         LET inp == proc[p].inp
             c == proc[p].cid
             e == history'[Len(history')]
         IN /\ Len(history') = Len(history) + 1
            /\ e.cylinder = c
            /\ inp.order_id # NoRef =>
                 /\ cyl'[c].current_order = inp.order_id
                 /\ cyl'[c].current_customer = OrderCustomer(inp.order_id)
                 /\ cyl'[c].status = "IN_DELIVERY"
                 /\ e.event_type = "DELIVERED"
            /\ (inp.order_id = NoRef /\ inp.customer_id # NoRef) =>
                 /\ cyl'[c].current_customer = inp.customer_id
                 /\ cyl'[c].current_order = NoRef
                 /\ cyl'[c].status = cyl[c].status
                 /\ e.event_type = "CUSTOMER_ASSIGNED"]_vars

(***************************************************************************)
(* C19: a scan resolves a cylinder by qr_code when its type is QR, by      *)
(* rfid_tag when it is RFID and by either field when it is MANUAL; a scan  *)
(* that resolves no cylinder is answered 404, and a scan that resolves     *)
(* one, MANUAL included, is answered 200 and recorded: its ScanEvent and   *)
(* its SCANNED event close the ledgers and total_scans counts it.          *)
(***************************************************************************)
ResolvedBy(scan_type, code) ==
  {c \in DOMAIN cyl :
     \/ scan_type \in {"QR", "MANUAL"} /\ cyl[c].qr_code = code
     \/ scan_type \in {"RFID", "MANUAL"} /\ cyl[c].rfid_tag = code}

C19_ResolutionByScanType ==
  Done("w1", "scan") =>
    LET inp == proc["w1"].inp
        resolved == ResolvedBy(inp.scan_type, inp.code)
    IN /\ resolved = {} => proc["w1"].resp.code = 404
       /\ resolved # {} =>
            /\ proc["w1"].resp.code = 200
            /\ Len(scans) > 0
            /\ scans[Len(scans)].cylinder \in resolved
            /\ scans[Len(scans)].scan_type = inp.scan_type
            /\ scans[Len(scans)].scanned_code = inp.code
            /\ history[Len(history)].event_type = "SCANNED"
            /\ history[Len(history)].cylinder \in resolved
            /\ \A c \in resolved : cyl[c].total_scans = Cardinality(ScansOf(c))

(***************************************************************************)
(* C16: the security material is write-once: the save that creates a       *)
(* cylinder assigns qr_code, rfid_tag, secret_key and auth_hash, and every *)
(* later step (scans, status updates and assignments re-save the row)      *)
(* keeps the cylinder and the four values.                                 *)
(***************************************************************************)
SecurityMaterial(row) == <<row.qr_code, row.rfid_tag, row.secret_key, row.auth_hash>>

C16_SecurityMaterialWriteOnce ==
  [][/\ \A c \in DOMAIN cyl :
          /\ c \in DOMAIN cyl'
          /\ SecurityMaterial(cyl'[c]) = SecurityMaterial(cyl[c])
     /\ \A c \in DOMAIN cyl' \ DOMAIN cyl :
          /\ cyl'[c].qr_code # NoCode
          /\ cyl'[c].rfid_tag # NoCode
          /\ cyl'[c].secret_key # NoCode
          /\ cyl'[c].auth_hash # NoCode]_vars

C16_Witness ==
  \E c \in DOMAIN cyl \ CylIds :
    /\ Done("w1", "update")
    /\ proc["w1"].resp.code = 200
    /\ proc["w1"].inp.cylinder_id = c
    /\ cyl[c].status = "FILLED"
    /\ cyl[c].qr_code = <<"QR-", "A2">>

(***************************************************************************)
(* C17: a registration answered 201 creates one cylinder with status       *)
(* ACTIVE, is_authentic, not is_tampered, total_fills = 0, total_scans = 0 *)
(* and non-empty qr_code and rfid_tag prefixed 'QR-' and 'RFID-', and      *)
(* appends exactly one REGISTERED event for it in the same step; a         *)
(* registration answered otherwise (validation or persistence failure)     *)
(* creates neither a cylinder nor an event.                                *)
(***************************************************************************)
RegAnswered(p) ==
  /\ proc'[p].pc = "idle"
  /\ proc'[p].op = "register"
  /\ \/ proc[p].pc = "idle" /\ started' = started + 1
     \/ proc[p].pc = "reg_tx"

RegisteredEventsOf(h, c) ==
  {i \in 1..Len(h) : h[i].cylinder = c /\ h[i].event_type = "REGISTERED"}

C17_RegistrationCreatesCylinderAndEvent ==
  [][\A p \in Procs : RegAnswered(p) =>
       IF proc'[p].resp.code = 201
       THEN LET c == proc'[p].resp.cylinder
            IN /\ c \notin DOMAIN cyl
               /\ DOMAIN cyl' = DOMAIN cyl \cup {c}
               /\ \A x \in DOMAIN cyl : cyl'[x] = cyl[x]
               /\ cyl'[c].status = "ACTIVE"
               /\ cyl'[c].is_authentic
               /\ ~cyl'[c].is_tampered
               /\ cyl'[c].total_fills = 0
               /\ cyl'[c].total_scans = 0
               /\ Len(cyl'[c].qr_code) = 2
               /\ cyl'[c].qr_code[1] = "QR-"
               /\ cyl'[c].qr_code[2] # ""
               /\ Len(cyl'[c].rfid_tag) = 2
               /\ cyl'[c].rfid_tag[1] = "RFID-"
               /\ cyl'[c].rfid_tag[2] # ""
               /\ Len(history') = Len(history) + 1
               /\ SubSeq(history', 1, Len(history)) = history
               /\ Cardinality(RegisteredEventsOf(history', c)) = 1
               /\ history'[Len(history')].cylinder = c
               /\ history'[Len(history')].event_type = "REGISTERED"
       ELSE /\ cyl' = cyl
            /\ history' = history]_vars

C17_Witness ==
  /\ Done("w1", "register")
  /\ proc["w1"].resp.code = 201
  /\ proc["w1"].resp.cylinder \in DOMAIN cyl
  /\ Cardinality(RegisteredEventsOf(history, proc["w1"].resp.cylinder)) = 1

(***************************************************************************)
(* C20: both ledgers are append-only: across every step every existing     *)
(* ScanEvent and every existing history event is still there with all its  *)
(* field values, and new entries are only added after them.                *)
(***************************************************************************)
IsPrefix(s, t) == Len(s) <= Len(t) /\ SubSeq(t, 1, Len(s)) = s

C20_LedgersAppendOnly ==
  [][IsPrefix(scans, scans') /\ IsPrefix(history, history')]_vars

C20_Witness ==
  /\ Len(scans) >= 2
  /\ Len(history) >= 3
  /\ history[1].event_type = "REGISTERED"
  /\ history[Len(history)].event_type = "SCANNED"

(***************************************************************************)
(* C21: the two audit trails agree per scan: the k-th SCANNED history      *)
(* event and the k-th ScanEvent are written by the same scan, name the     *)
(* same cylinder, and the event's verification payload carries the         *)
(* ScanEvent's scan_result, is_suspicious flag, latitude and longitude.    *)
(***************************************************************************)
IsScannedEvent(e) == e.event_type = "SCANNED"

ScannedEvents == SelectSeq(history, IsScannedEvent)

C21_AuditTrailsAgree ==
  /\ Len(ScannedEvents) = Len(scans)
  /\ \A k \in 1..Len(scans) :
       LET e == ScannedEvents[k]
       IN /\ e.cylinder = scans[k].cylinder
          /\ e.verification_data.present
          /\ e.verification_data.scan_result = scans[k].scan_result
          /\ e.verification_data.is_suspicious = scans[k].is_suspicious
          /\ e.verification_data.latitude = scans[k].scan_location_lat
          /\ e.verification_data.longitude = scans[k].scan_location_lng

C21_Witness ==
  \E k \in 1..Len(scans) :
    /\ scans[k].is_suspicious
    /\ scans[k].scan_location_lat # Null
    /\ scans[k].scan_location_lng # Null
    /\ scans[k].scan_location_lat # scans[k].scan_location_lng
    /\ Len(ScannedEvents) >= k

(***************************************************************************)
(* C22: in every reachable state every ScanEvent has a non-empty           *)
(* auth_token iff its scan_result is SUCCESS, and every scan response      *)
(* carries an auth_token iff its verified flag is true.                    *)
(***************************************************************************)
C22_TokenOnlyOnSuccess ==
  /\ \A k \in 1..Len(scans) :
       (scans[k].auth_token # NoToken) <=> (scans[k].scan_result = "SUCCESS")
  /\ \A p \in Procs :
       (Done(p, "scan") /\ proc[p].resp.code = 200) =>
         ((proc[p].resp.auth_token # NoToken) <=> proc[p].resp.verified)

C22_Witness ==
  /\ Len(scans) = 2
  /\ scans[1].scan_result = "SUCCESS"
  /\ scans[1].auth_token # NoToken
  /\ scans[2].scan_result = "SUCCESS"
  /\ Done("w1", "scan")
  /\ proc["w1"].resp.code = 200
  /\ proc["w1"].resp.verified
  /\ proc["w1"].resp.auth_token # NoToken

(***************************************************************************)
(* C23: a registration by a dispatcher or admin whose serial_number, once  *)
(* trimmed and uppercased, is the serial_number of an existing cylinder is *)
(* answered 400, never 500, and creates no cylinder and no history event.  *)
(***************************************************************************)
NormalisedSerial(value) == Upper(Strip(value))

C23_DuplicateSerialRejected ==
  [][\A p \in Procs :
       (/\ RegAnswered(p)
        /\ IsDispatcherOrAdmin(proc'[p].inp.actor)
        /\ \E c \in DOMAIN cyl :
             cyl[c].serial_number = NormalisedSerial(proc'[p].inp.serial_number)) =>
         /\ proc'[p].resp.code = 400
         /\ cyl' = cyl
         /\ history' = history]_vars

(***************************************************************************)
(* C24 as stated: verify_authenticity is a pure function of the cylinder   *)
(* state, the code and the code type: two calls with the same three return *)
(* the same (ok, reason), and a call changes no field of the cylinder      *)
(* instance or row and writes to neither ledger.                           *)
(***************************************************************************)
CalledTwice == vout.called /\ vout.again.called

SameVerdict == vout.again.ok = vout.ok /\ vout.again.reason = vout.reason

NoSideEffect == vin' = vin /\ cyl' = cyl /\ scans' = scans /\ history' = history

OrderTransitionTable ==
  { <<"PENDING", "ASSIGNED">>, <<"PENDING", "CANCELLED">>,
    <<"ASSIGNED", "ON_ROUTE">>, <<"ASSIGNED", "CANCELLED">>,
    <<"ON_ROUTE", "DELIVERED">>, <<"ON_ROUTE", "CANCELLED">> }

MayUpdateOrder(actor, o) ==
  \/ Role(actor) \in {"DISPATCHER", "ADMIN"}
  \/ /\ Role(actor) = "DRIVER"
     /\ \E i \in 1..Len(deliveries) : deliveries[i].order = o /\ deliveries[i].driver = actor

OrderUpdateDecided(p) ==
  /\ proc[p].pc = "idle"
  /\ proc'[p].op = "order_update"
  /\ started' = started + 1
  /\ proc'[p].inp.order_id \in DOMAIN orders
  /\ proc'[p].inp.status \in OrderStatuses
  /\ MayUpdateOrder(proc'[p].inp.actor, proc'[p].inp.order_id)

OrderUpdateDecisionOK(p) ==
  LET o == proc'[p].inp.order_id
      pair == <<orders[o].status, proc'[p].inp.status>> \in OrderTransitionTable
  IN /\ (proc'[p].pc = "ord_tx") <=> pair
     /\ ~pair => /\ proc'[p].pc = "idle"
                 /\ proc'[p].resp.code = 400
                 /\ orders' = orders
                 /\ deliveries' = deliveries

OrderUpdateApplied(p) == proc[p].pc = "ord_tx" /\ proc'[p].pc = "idle"

OrderUpdateEffectOK(p) ==
  /\ proc'[p].resp.code = 200
  /\ orders'[proc[p].oid].status = proc[p].inp.status

CoupledStatus(order_status) ==
  CASE order_status = "ASSIGNED" -> {"ASSIGNED"}
    [] order_status = "ON_ROUTE" -> {"IN_PROGRESS"}
    [] order_status = "DELIVERED" -> {"COMPLETED"}
    [] order_status = "CANCELLED" -> {"FAILED"}
    [] OTHER -> {"ASSIGNED", "IN_PROGRESS", "COMPLETED", "FAILED"}

C26_OrderDeliveryCoupled ==
  \A i \in 1..Len(deliveries) :
    deliveries[i].status \in CoupledStatus(orders[deliveries[i].order].status)

(***************************************************************************)
(* C27: in every reachable state an order whose status is ASSIGNED,        *)
(* ON_ROUTE or DELIVERED has a Delivery record.                            *)
(***************************************************************************)
C27_AssignedOrderHasDelivery ==
  \A o \in DOMAIN orders :
    orders[o].status \in {"ASSIGNED", "ON_ROUTE", "DELIVERED"} => HasDelivery(deliveries, o)

(***************************************************************************)
(* C28: a step of assign_driver that creates a delivery or sets the order  *)
(* to ASSIGNED acts on an order that is PENDING and has no delivery in the *)
(* state it commits in; no order ever has more than one delivery; an       *)
(* assignment that is rejected changes neither orders nor deliveries.      *)
(***************************************************************************)
DriverAssignAnswered(p) ==
  /\ proc'[p] # proc[p]
  /\ proc'[p].pc = "idle"
  /\ proc'[p].op = "assign_driver"

DriverAssignEffectOK(p) ==
  IF proc'[p].resp.code = 201
  THEN LET o == proc'[p].inp.order_id
       IN /\ orders[o].status = "PENDING"
          /\ ~HasDelivery(deliveries, o)
          /\ orders'[o].status = "ASSIGNED"
          /\ Cardinality(DeliveriesOf(deliveries', o)) = 1
  ELSE orders' = orders /\ deliveries' = deliveries

AtMostOneDelivery == \A o \in DOMAIN orders : Cardinality(DeliveriesOf(deliveries, o)) <= 1

C28_AssignOnlyPendingAtCommit ==
  /\ []AtMostOneDelivery
  /\ [][\A p \in Procs : DriverAssignAnswered(p) => DriverAssignEffectOK(p)]_vars
(***************************************************************************)
(* C29: a register_cylinder, assign_cylinder_to_order,                     *)
(* update_cylinder_status, assign_driver, create_vehicle or                *)
(* assign_driver_to_vehicle request of an actor who is neither dispatcher  *)
(* nor admin, and a create_order request of an actor who is not a          *)
(* customer, is answered 403 and changes no record.                        *)
(***************************************************************************)
StaffOperations ==
  {"register", "assign", "update", "assign_driver", "create_vehicle",
   "assign_driver_to_vehicle"}

RequestReceived(p) == proc[p].pc = "idle" /\ started' = started + 1

LacksRole(p) ==
  \/ /\ proc'[p].op \in StaffOperations
     /\ Role(proc'[p].inp.actor) \notin {"DISPATCHER", "ADMIN"}
  \/ /\ proc'[p].op = "create_order"
     /\ Role(proc'[p].inp.actor) # "CUSTOMER"

Forbidden(p) ==
  /\ proc'[p].pc = "idle"
  /\ proc'[p].resp.code = 403
  /\ UNCHANGED <<cyl, scans, history, orders, deliveries, vehicles, assignments, users>>

C29_RoleGating ==
  [][\A p \in Procs : RequestReceived(p) /\ LacksRole(p) => Forbidden(p)]_vars

C29_Witness ==
  /\ Done("w1", "assign_driver_to_vehicle")
  /\ Role(proc["w1"].inp.actor) = "DRIVER"
  /\ proc["w1"].resp.code = 403
  /\ Cardinality(DOMAIN vehicles) = 3
(***************************************************************************)
(* C30: a request authenticates iff its bearer token is signed, unexpired, *)
(* of type access and names an existing active user, and then as that      *)
(* user; refresh_token_view issues a token pair iff the presented token is *)
(* signed, unexpired, of type refresh and names an existing active user,   *)
(* and the pair is issued to that user; every other request is refused.    *)
(***************************************************************************)
ValidFor(bearer, token_type) ==
  /\ bearer.present
  /\ bearer.signed
  /\ bearer.exp > now
  /\ bearer.token_type = token_type
  /\ bearer.user_id \in DOMAIN users
  /\ users[bearer.user_id].is_active

C30_TokenTypesNotInterchangeable ==
  [][\A p \in Procs :
       RequestReceived(p) =>
         /\ proc'[p].op = "authenticate" =>
              /\ (proc'[p].resp.code = 200) <=> ValidFor(proc'[p].inp.bearer, "access")
              /\ proc'[p].resp.code = 200 => proc'[p].resp.user = proc'[p].inp.bearer.user_id
              /\ proc'[p].resp.code # 200 => proc'[p].resp.code = 401
         /\ proc'[p].op = "refresh" =>
              /\ (proc'[p].resp.code = 200) <=> ValidFor(proc'[p].inp.bearer, "refresh")
              /\ proc'[p].resp.code = 200 =>
                   /\ proc'[p].resp.user = proc'[p].inp.bearer.user_id
                   /\ proc'[p].resp.tokens.access_token.token_type = "access"
                   /\ proc'[p].resp.tokens.access_token.user_id = proc'[p].resp.user
                   /\ proc'[p].resp.tokens.refresh_token.token_type = "refresh"
                   /\ proc'[p].resp.tokens.refresh_token.user_id = proc'[p].resp.user
              /\ proc'[p].resp.code # 200 => proc'[p].resp.code \in {400, 401}]_vars

C30_Witness ==
  /\ Done("w1", "refresh")
  /\ proc["w1"].resp.code = 401
  /\ ValidFor(proc["w1"].inp.bearer, "access")
  /\ proc["w1"].inp.bearer.exp = AccessTokenLifetime
(***************************************************************************)
(* C31: once a signout request has been answered 200, every later request  *)
(* that presents the same access token to an endpoint requiring an         *)
(* authenticated user is refused.                                          *)
(***************************************************************************)
SignedOut(q) == Done(q, "signout") /\ proc[q].resp.code = 200

C31_SignoutInvalidatesToken ==
  [][\A p \in Procs, q \in Procs :
       /\ SignedOut(q)
       /\ RequestReceived(p)
       /\ proc'[p].op = "authenticate"
       /\ proc'[p].inp.bearer = proc[q].inp.bearer
       => proc'[p].resp.code = 401]_vars
(***************************************************************************)
(* C32: a history request for an existing cylinder is answered 200 iff the *)
(* actor is a dispatcher or admin, a customer who is the cylinder's        *)
(* current customer or is named as customer in one of its events, or the   *)
(* driver of the delivery of the order the cylinder is assigned to; every  *)
(* other request is answered 403.                                          *)
(***************************************************************************)
MaySeeHistory(actor, c) ==
  \/ Role(actor) \in {"DISPATCHER", "ADMIN"}
  \/ /\ Role(actor) = "CUSTOMER"
     /\ \/ cyl[c].current_customer = actor
        \/ \E i \in 1..Len(history) : history[i].cylinder = c /\ history[i].customer = actor
  \/ /\ Role(actor) = "DRIVER"
     /\ cyl[c].current_order # NoRef
     /\ \E i \in 1..Len(deliveries) :
          deliveries[i].driver = actor /\ deliveries[i].order = cyl[c].current_order

C32_HistoryVisibility ==
  [][\A p \in Procs :
       /\ RequestReceived(p)
       /\ proc'[p].op = "get_history"
       /\ proc'[p].inp.cylinder_id \in DOMAIN cyl
       => /\ (proc'[p].resp.code = 200)
               <=> MaySeeHistory(proc'[p].inp.actor, proc'[p].inp.cylinder_id)
          /\ proc'[p].resp.code \in {200, 403}]_vars
(***************************************************************************)
(* C33: in every reachable state no two vehicles have the same driver.     *)
(***************************************************************************)
C33_DriverOnOneVehicle ==
  \A v \in DOMAIN vehicles, w \in DOMAIN vehicles :
    v # w /\ vehicles[v].driver # NoRef => vehicles[v].driver # vehicles[w].driver
(***************************************************************************)
(* C34: a delivery created by assign_driver without a driver_id has a      *)
(* driver who, in the state the delivery commits in, is active, has an     *)
(* open assignment to an ACTIVE vehicle and has no delivery ASSIGNED or    *)
(* IN_PROGRESS; a request that finds no such driver is answered 400 and    *)
(* changes neither orders nor deliveries.                                  *)
(***************************************************************************)
FreeDriver(d) ==
  /\ d \in DOMAIN users
  /\ Role(d) = "DRIVER"
  /\ users[d].is_active
  /\ \E i \in 1..Len(assignments) :
       /\ assignments[i].driver = d
       /\ assignments[i].end_date = Null
       /\ vehicles[assignments[i].vehicle].status = "ACTIVE"
  /\ ~\E i \in 1..Len(deliveries) :
       deliveries[i].driver = d /\ deliveries[i].status \in {"ASSIGNED", "IN_PROGRESS"}

AutoAssignAnswered(p) == DriverAssignAnswered(p) /\ proc'[p].inp.driver_id = NoRef

C34_AutoSelectionPicksFreeDriver ==
  [][\A p \in Procs :
       AutoAssignAnswered(p) =>
         /\ proc'[p].resp.code = 201 =>
              /\ FreeDriver(proc'[p].resp.driver)
              /\ deliveries'[Len(deliveries')].driver = proc'[p].resp.driver
         /\ (proc[p].pc = "drv_tx" /\ ~\E d \in DOMAIN users : FreeDriver(d)) =>
              /\ proc'[p].resp.code = 400
              /\ orders' = orders
              /\ deliveries' = deliveries]_vars

(***************************************************************************)
(* C35: in every scan log is_suspicious holds iff suspicious_reason is not *)
(* empty; the reason a scan is given is the rapid-repeat text alone, the   *)
(* impossible-travel text alone, or the rapid-repeat text followed by the  *)
(* impossible-travel text, according to which of the two rules fired; the  *)
(* scan log stores that flag and reason, and the response carries a        *)
(* warning block iff the scan is suspicious.                               *)
(***************************************************************************)
ReasonFor(rapid, travel) ==
  CASE rapid /\ travel -> <<RapidMsg, TravelMsg>>
    [] rapid /\ ~travel -> <<RapidMsg>>
    [] ~rapid /\ travel -> <<TravelMsg>>
    [] OTHER -> <<>>

ScanFlagsConsistent ==
  \A i \in 1..Len(scans) : scans[i].is_suspicious <=> scans[i].suspicious_reason # <<>>

ScanDetected(p) ==
  /\ AnomaliesEvaluated(p)
  /\ proc'[p].pc = "scan_tx"

ScanDetectionOK(p) ==
  LET rapid == RecentScans(proc[p].cid, now) > RapidThreshold
      travel == TravelFlag(proc[p].cid, proc[p].inp.lat, proc[p].inp.lng, now)
  IN /\ proc'[p].is_suspicious = (rapid \/ travel)
     /\ proc'[p].suspicious_reason = ReasonFor(rapid, travel)

ScanLogged(p) ==
  /\ proc[p].pc = "scan_tx"
  /\ proc'[p].pc = "idle"

ScanLoggedOK(p) ==
  /\ Len(scans') = Len(scans) + 1
  /\ scans'[Len(scans')].is_suspicious = proc[p].is_suspicious
  /\ scans'[Len(scans')].suspicious_reason = proc[p].suspicious_reason
  /\ proc'[p].resp.code = 200
  /\ proc'[p].resp.warning = proc[p].is_suspicious

C35_SuspiciousReasonAndWarning ==
  /\ []ScanFlagsConsistent
  /\ [][\A p \in Procs : /\ (ScanDetected(p) => ScanDetectionOK(p))
                          /\ (ScanLogged(p) => ScanLoggedOK(p))]_vars

C35_Witness ==
  /\ Done("w1", "scan")
  /\ proc["w1"].resp.code = 200
  /\ proc["w1"].resp.warning
  /\ Len(scans) > 0
  /\ scans[Len(scans)].is_suspicious
  /\ scans[Len(scans)].suspicious_reason = <<RapidMsg, TravelMsg>>

(***************************************************************************)
(* C36: the DELIVERED event written when a cylinder is assigned to an      *)
(* order records as previous_status the status the cylinder had just before*)
(* the assignment and as new_status IN_DELIVERY.                           *)
(***************************************************************************)
AssignedToOrder(p) ==
  /\ proc[p].pc = "asg_tx"
  /\ proc[p].inp.order_id # NoRef
  /\ proc'[p].pc = "idle"
  /\ proc'[p].resp.code = 200

DeliveredEventOK(p) ==
  /\ Len(history') = Len(history) + 1
  /\ LET e == history'[Len(history')]
     IN /\ e.cylinder = proc[p].cid
        /\ e.event_type = "DELIVERED"
        /\ e.previous_status = cyl[proc[p].cid].status
        /\ e.new_status = "IN_DELIVERY"

C36_DeliveredEventPreviousStatus ==
  [][\A p \in Procs : AssignedToOrder(p) => DeliveredEventOK(p)]_vars

(***************************************************************************)
(* C37: DELIVERED and CANCELLED are final for orders: once an order's      *)
(* committed status is DELIVERED or CANCELLED, no step of a concurrent     *)
(* update_order_status or assign_driver request changes the order's status *)
(* or the status of its delivery, and none gives it a delivery.            *)
(***************************************************************************)
FinalOrderStatuses == {"DELIVERED", "CANCELLED"}

DeliveryStatuses(table, o) == {table[i].status : i \in DeliveriesOf(table, o)}

C37_FinalOrderStatusesStay ==
  [][\A o \in DOMAIN orders :
       orders[o].status \in FinalOrderStatuses =>
         /\ orders'[o].status = orders[o].status
         /\ DeliveryStatuses(deliveries', o) = DeliveryStatuses(deliveries, o)]_vars

(***************************************************************************)
(* C38: a registration fails on a collision of a generated qr_code or      *)
(* rfid_tag only after three generation attempts have collided, and then   *)
(* neither a cylinder nor a history event is persisted; a registration     *)
(* whose codes were generated at most three times and whose last attempt   *)
(* is collision-free succeeds.                                             *)
(***************************************************************************)
RegTransactionEnded(p) ==
  /\ proc[p].pc = "reg_tx"
  /\ proc'[p].pc = "idle"

SerialFree(p) ==
  \A c \in DOMAIN cyl : cyl[c].serial_number # proc[p].row.serial_number

FailedOnCodeCollision(p) ==
  /\ SerialFree(p)
  /\ proc'[p].resp.code = 500
  /\ proc'[p].resp.cause = "IntegrityError"

C38_CollisionRegeneratesCodes ==
  [][\A p \in Procs :
       RegTransactionEnded(p) /\ FailedOnCodeCollision(p) =>
         /\ proc'[p].resp.attempts = 3
         /\ cyl' = cyl
         /\ history' = history]_vars

====
